---- MODULE Spec2Model ----
(***************************************************************************)
(* Model of the pong ball: the CurveState machine, the per-frame           *)
(* move_and_collide system with its collide_once loop, and the paddle      *)
(* hitboxes it reads (src/pong/src/ball.rs, paddle.rs, common.rs).         *)
(*                                                                         *)
(* Numbers.  The program computes in f32.  The model computes in exact     *)
(* integer arithmetic on a lattice fine enough that every quantity the     *)
(* modelled runs compute is an integer:                                    *)
(*   - lengths are in units of 1/WorldUnit world units;                    *)
(*   - a Dir2 (unit vector) is an integer vector of length DirNorm;        *)
(*   - time is in ticks of 1/TicksPerSec seconds;                          *)
(*   - angles are in units of (pi/10)/TicksPerSec radians.                 *)
(* Floating-point rounding is therefore outside the model.                 *)
(***************************************************************************)
EXTENDS Integers, Sequences, FiniteSets, TLC

VARIABLES
    ball,       \* Ball component: movement_dir, paused, curve (CurveState)
    ball_tf,    \* the ball's Transform: translation (x, y), z, rotation about z, scale
    paddles,    \* per PlayerId: Transform.translation.y and Paddle.move_dir
    pc,         \* position inside move_and_collide: "idle" or "loop"
    move_dist,  \* the local move_dist of move_and_collide while in its loop
    panicked,   \* TRUE once an unwrap() of None has been reached
    last_call,  \* the last operation that ran, its argument and the state before it
    calls,      \* the apply_curve arguments passed so far (direct calls only)
    frame,      \* the ball at the start of the current/last move_and_collide run
    sprite,     \* the ball's Sprite: color
    msgs,       \* messages written and not yet read by their reader, per message type
    res,        \* RoundStartTimer, IsBetweenGames, Score, the score and win texts,
                \* and the world of the font size plugin (debouncer, window, cameras, texts)
    app         \* the Update schedule: frame number, Time delta, keys, systems run so far

vars == <<ball, ball_tf, paddles, pc, move_dist, panicked, last_call, calls, frame,
          sprite, msgs, res, app>>

----------------------------------------------------------------------------
(* Units *)

WorldUnit   == 5200 * 60      \* lattice steps per world unit
TicksPerSec == 72 * 100       \* ticks per second
DirNorm     == 5 * 13         \* length of the integer vector standing for a Dir2
QuarterTurn == 5 * TicksPerSec \* pi/2 in angle units of (pi/10)/TicksPerSec

Abs(n) == IF n < 0 THEN -n ELSE n
Min(a, b) == IF a <= b THEN a ELSE b
Max(a, b) == IF a >= b THEN a ELSE b

----------------------------------------------------------------------------
(* common.rs *)

ARENA_WIDTH  == 16 * WorldUnit
ARENA_HEIGHT == 9 * WorldUnit

PlayerId == {"Player1", "Player2"}

----------------------------------------------------------------------------
(* ball.rs: constants *)

BALL_SIZE  == (2 * ARENA_HEIGHT) \div 100
\* world units per second; one tick moves BALL_SPEED \div TicksPerSec
BALL_SPEED == (9 * ARENA_WIDTH) \div 10
BALL_OFF_SCREEN_X_MAG == (ARENA_WIDTH \div 2) - (BALL_SIZE \div 2)

Green  == <<0, 255, 0>>
Yellow == <<255, 255, 0>>

\* rotate_rad_per_sec and curve_rad_per_sec are in units of pi/10 rad/s
BALL_CURVE_CFG_NONE ==
    [color |-> [kind |-> "Solid", color |-> Green],
     rotate_rad_per_sec |-> 0, curve_rad_per_sec |-> 0]
BALL_CURVE_CFG_L1 ==
    [color |-> [kind |-> "Solid", color |-> Green],
     rotate_rad_per_sec |-> 20, curve_rad_per_sec |-> 1]
BALL_CURVE_CFG_L2 ==
    [color |-> [kind |-> "Solid", color |-> Yellow],
     rotate_rad_per_sec |-> 30, curve_rad_per_sec |-> 3]
\* blink_time 230 ms in ticks
BALL_CURVE_CFG_L3 ==
    [color |-> [kind |-> "Blinking", blink_time |-> (230 * TicksPerSec) \div 1000,
                colors |-> <<Green, Yellow>>],
     rotate_rad_per_sec |-> 50, curve_rad_per_sec |-> 6]
BALL_CURVE_LEVELS ==
    <<BALL_CURVE_CFG_NONE, BALL_CURVE_CFG_L1, BALL_CURVE_CFG_L2, BALL_CURVE_CFG_L3>>

\* slice::get: Rust indices are 0-based
LevelInRange(idx) == idx >= 0 /\ idx < Len(BALL_CURVE_LEVELS)
\* the level an unwrap() yields; where get() is None the caller panics
\* (the panic is tracked by the *Panics operators), the value is then unused
LevelsGet(idx) == IF LevelInRange(idx) THEN BALL_CURVE_LEVELS[idx + 1]
                  ELSE BALL_CURVE_CFG_NONE

CurveDir == {"None", "Clockwise", "CounterClockwise"}

----------------------------------------------------------------------------
(* bevy Timer, as CurveState uses it *)

\* Timer::default(): zero duration, TimerMode::Once, running
TimerDefault ==
    [duration |-> 0, repeating |-> FALSE, elapsed |-> 0, paused |-> FALSE,
     finished |-> FALSE, times_finished_this_tick |-> 0]

TimerNew(duration, repeating) ==
    [duration |-> duration, repeating |-> repeating, elapsed |-> 0,
     paused |-> FALSE, finished |-> FALSE, times_finished_this_tick |-> 0]

TimerPause(t) == [t EXCEPT !.paused = TRUE]

TimerTick(t, delta) ==
    IF t.paused
    THEN [t EXCEPT !.times_finished_this_tick = 0,
                   !.finished = IF t.repeating THEN FALSE ELSE t.finished]
    ELSE IF ~t.repeating /\ t.finished
    THEN [t EXCEPT !.times_finished_this_tick = 0]
    ELSE LET e == t.elapsed + delta IN
         IF e >= t.duration
         THEN IF t.repeating
              THEN [t EXCEPT !.finished = TRUE,
                             !.times_finished_this_tick =
                                 \* checked_div of a zero duration: u32::MAX,
                                 \* written as the largest number the checker holds
                                 IF t.duration = 0 THEN 2147483647
                                 ELSE e \div t.duration,
                             !.elapsed = IF t.duration = 0 THEN 0
                                         ELSE e % t.duration]
              ELSE [t EXCEPT !.finished = TRUE,
                             !.times_finished_this_tick = 1,
                             !.elapsed = t.duration]
         ELSE [t EXCEPT !.finished = FALSE,
                        !.times_finished_this_tick = 0,
                        !.elapsed = e]

----------------------------------------------------------------------------
(* ball.rs: CurveState *)

\* CurveState::default()
CurveStateDefault ==
    [dir |-> "None", cfg_idx |-> 0, color_timer |-> TimerDefault, color_idx |-> 0]

\* Mutations of CurveNext (plausible slips in apply_curve)
CurveNextNoCap(self, dir) ==
    IF dir = "None" THEN [self EXCEPT !.dir = "None", !.cfg_idx = 0]
    ELSE IF dir = self.dir
    THEN IF self.cfg_idx < Len(BALL_CURVE_LEVELS)
         THEN [self EXCEPT !.cfg_idx = self.cfg_idx + 1]
         ELSE self
    ELSE [self EXCEPT !.dir = dir, !.cfg_idx = 1]

CurveNextCapEarly(self, dir) ==
    IF dir = "None" THEN [self EXCEPT !.dir = "None", !.cfg_idx = 0]
    ELSE IF dir = self.dir
    THEN IF self.cfg_idx < (Len(BALL_CURVE_LEVELS) - 2)
         THEN [self EXCEPT !.cfg_idx = self.cfg_idx + 1]
         ELSE self
    ELSE [self EXCEPT !.dir = dir, !.cfg_idx = 1]

CurveNextReverseKeepsLevel(self, dir) ==
    IF dir = "None" THEN [self EXCEPT !.dir = "None", !.cfg_idx = 0]
    ELSE IF dir = self.dir
    THEN IF self.cfg_idx < (Len(BALL_CURVE_LEVELS) - 1)
         THEN [self EXCEPT !.cfg_idx = self.cfg_idx + 1]
         ELSE self
    ELSE [self EXCEPT !.dir = dir, !.cfg_idx = Max(self.cfg_idx, 1)]

CurveNextNoneKeepsLevel(self, dir) ==
    IF dir = "None" THEN [self EXCEPT !.dir = "None"]
    ELSE IF dir = self.dir
    THEN IF self.cfg_idx < (Len(BALL_CURVE_LEVELS) - 1)
         THEN [self EXCEPT !.cfg_idx = self.cfg_idx + 1]
         ELSE self
    ELSE [self EXCEPT !.dir = dir, !.cfg_idx = 1]

CurveNextNewDirKeepsLevel(self, dir) ==
    IF dir = "None" THEN [self EXCEPT !.dir = "None", !.cfg_idx = 0]
    ELSE IF dir = self.dir
    THEN IF self.cfg_idx < (Len(BALL_CURVE_LEVELS) - 1)
         THEN [self EXCEPT !.cfg_idx = self.cfg_idx + 1]
         ELSE self
    ELSE [self EXCEPT !.dir = dir]

\* apply_curve, first half: the new (dir, cfg_idx)
CurveNext(self, dir) ==
    IF dir = "None" THEN [self EXCEPT !.dir = "None", !.cfg_idx = 0]
    ELSE IF dir = self.dir
    THEN \* Same curve as already applied. Strengthen it if possible.
         IF self.cfg_idx < (Len(BALL_CURVE_LEVELS) - 1)
         THEN [self EXCEPT !.cfg_idx = self.cfg_idx + 1]
         ELSE self
    ELSE \* Applying a new curve direction. Start at level 1.
         [self EXCEPT !.dir = dir, !.cfg_idx = 1]

\* apply_curve reaches BALL_CURVE_LEVELS.get(cfg_idx).unwrap() on None
ApplyCurvePanics(self, dir) ==
    LET n == CurveNext(self, dir) IN
    /\ <<self.dir, self.cfg_idx>> # <<n.dir, n.cfg_idx>>
    /\ ~LevelInRange(n.cfg_idx)

\* Mutation: the blink animation is re-initialised on every call
ApplyCurveAlwaysReinit(self, dir) ==
    LET n == CurveNext(self, dir) IN
    IF LevelInRange(n.cfg_idx)
    THEN LET new_state == LevelsGet(n.cfg_idx) IN
         IF new_state.color.kind = "Solid"
         THEN [n EXCEPT !.color_timer = TimerPause(n.color_timer)]
         ELSE [n EXCEPT !.color_timer = TimerNew(new_state.color.blink_time, TRUE),
                        !.color_idx = 0]
    ELSE n

\* apply_curve, whole: second half re-initialises the blink animation
ApplyCurve(self, dir) ==
    LET n == CurveNext(self, dir) IN
    IF <<self.dir, self.cfg_idx>> # <<n.dir, n.cfg_idx>> /\ LevelInRange(n.cfg_idx)
    THEN LET new_state == LevelsGet(n.cfg_idx) IN
         IF new_state.color.kind = "Solid"
         THEN [n EXCEPT !.color_timer = TimerPause(n.color_timer)]
         ELSE [n EXCEPT !.color_timer = TimerNew(new_state.color.blink_time, TRUE),
                        !.color_idx = 0]
    ELSE n

GetColorPanics(self) == ~LevelInRange(self.cfg_idx)

\* Mutation: a finished blink period also steps the level down
GetColorStepsLevel(self, time_delta) ==
    LET cur_state == LevelsGet(self.cfg_idx) IN
    IF cur_state.color.kind = "Solid"
    THEN [curve |-> self, color |-> cur_state.color.color]
    ELSE LET t == TimerTick(self.color_timer, time_delta)
             i == (self.color_idx + t.times_finished_this_tick)
                      % Len(cur_state.color.colors)
         IN [curve |-> [self EXCEPT !.color_timer = t, !.color_idx = i,
                                    !.cfg_idx = IF t.times_finished_this_tick > 0
                                                THEN @ - 1 ELSE @],
             color |-> cur_state.color.colors[i + 1]]

\* Mutation: the index moves on by one however many periods were completed
GetColorSingleStep(self, time_delta) ==
    LET cur_state == LevelsGet(self.cfg_idx) IN
    IF cur_state.color.kind = "Solid"
    THEN [curve |-> self, color |-> cur_state.color.color]
    ELSE LET t == TimerTick(self.color_timer, time_delta)
             i == (self.color_idx + IF t.times_finished_this_tick > 0 THEN 1 ELSE 0)
                      % Len(cur_state.color.colors)
         IN [curve |-> [self EXCEPT !.color_timer = t, !.color_idx = i],
             color |-> cur_state.color.colors[i + 1]]

\* get_color: the CurveState after the call and the colour returned
GetColor(self, time_delta) ==
    LET cur_state == LevelsGet(self.cfg_idx) IN
    IF cur_state.color.kind = "Solid"
    THEN [curve |-> self, color |-> cur_state.color.color]
    ELSE LET t == TimerTick(self.color_timer, time_delta)
             i == (self.color_idx + t.times_finished_this_tick)
                      % Len(cur_state.color.colors)
         IN [curve |-> [self EXCEPT !.color_timer = t, !.color_idx = i],
             color |-> cur_state.color.colors[i + 1]]

GetRotationDelta(self, time_delta) ==
    LET cur_state == LevelsGet(self.cfg_idx) IN
    CASE self.dir = "Clockwise" -> -(cur_state.rotate_rad_per_sec * time_delta)
      [] self.dir = "CounterClockwise" -> cur_state.rotate_rad_per_sec * time_delta
      [] OTHER -> 0

\* Mutation: the signs of the two spin directions are exchanged
GetTrajectoryDeltaSwapped(self, time_delta) ==
    LET cur_state == LevelsGet(self.cfg_idx) IN
    CASE self.dir = "Clockwise" -> cur_state.curve_rad_per_sec * time_delta
      [] self.dir = "CounterClockwise" -> -(cur_state.curve_rad_per_sec * time_delta)
      [] OTHER -> 0

GetTrajectoryDelta(self, time_delta) ==
    LET cur_state == LevelsGet(self.cfg_idx) IN
    CASE self.dir = "Clockwise" -> -(cur_state.curve_rad_per_sec * time_delta)
      [] self.dir = "CounterClockwise" -> cur_state.curve_rad_per_sec * time_delta
      [] OTHER -> 0

----------------------------------------------------------------------------
(* Vec2 / Dir2 / Ray2d / Plane2d / Mat2 (glam and bevy_math, as ball.rs calls them) *)

Dot(a, b) == a[1] * b[1] + a[2] * b[2]

\* division with a divisor of either sign; exact on the model's lattice
Quot(num, den) == IF den > 0 THEN num \div den ELSE (-num) \div (-den)
Divides(den, num) == den # 0 /\ num % Abs(den) = 0

None == [some |-> FALSE, val |-> 0]
Some(v) == [some |-> TRUE, val |-> v]

\* Ray2d::intersect_plane: None when the ray is parallel to the plane or the
\* plane is not strictly ahead (distance > f32::EPSILON), else the distance
IntersectPlane(origin, direction, plane_origin, normal) ==
    LET denominator == Dot(normal, direction)      \* times DirNorm
        num == Dot(<<plane_origin[1] - origin[1], plane_origin[2] - origin[2]>>, normal)
    IN IF denominator # 0
       THEN LET distance == Quot(num * DirNorm, denominator) IN
            IF distance > 0 THEN Some(distance) ELSE None
       ELSE None

\* Ray2d::get_point
GetPoint(origin, direction, distance) ==
    <<origin[1] + Quot(direction[1] * distance, DirNorm),
      origin[2] + Quot(direction[2] * distance, DirNorm)>>

\* Mutation: the component along the plane is negated, not the one across it
ReflectAlongPlane(direction, normal) ==
    <<2 * Dot(direction, normal) * normal[1] - direction[1],
      2 * Dot(direction, normal) * normal[2] - direction[2]>>

\* Mutation: the component across the plane is removed, not negated
ReflectNoDouble(direction, normal) ==
    <<direction[1] - Dot(direction, normal) * normal[1],
      direction[2] - Dot(direction, normal) * normal[2]>>

\* Dir2::reflect(normal) = self - 2 * (self . normal) * normal
Reflect(direction, normal) ==
    <<direction[1] - 2 * Dot(direction, normal) * normal[1],
      direction[2] - 2 * Dot(direction, normal) * normal[2]>>

\* Mat2::from_angle(angle) * v, for an angle that is a whole number of quarter turns
IsQuarterTurns(angle) == angle % QuarterTurn = 0
Rotate(angle, v) ==
    LET k == (angle \div QuarterTurn) % 4 IN
    CASE k = 0 -> v
      [] k = 1 -> <<-v[2], v[1]>>
      [] k = 2 -> <<-v[1], -v[2]>>
      [] OTHER -> <<v[2], -v[1]>>

----------------------------------------------------------------------------
(* paddle.rs *)

PADDLE_HEIGHT  == (15 * ARENA_HEIGHT) \div 100
PADDLE_WIDTH   == (15 * PADDLE_HEIGHT) \div 100
PADDLE_CLAMP_Y == (ARENA_HEIGHT \div 2) - (PADDLE_HEIGHT \div 2)

MoveDirection == {"None", "Up", "Down"}

\* Transform of the paddle entity of a player, as setup_paddles creates it
\* and handle_input_move_paddles moves it (only translation.y changes)
PaddleTransform(pads, player) ==
    [translation |-> <<IF player = "Player1" THEN -(ARENA_WIDTH \div 2)
                       ELSE ARENA_WIDTH \div 2,
                       pads[player].y>>,
     scale |-> <<PADDLE_WIDTH, PADDLE_HEIGHT>>]

\* Query<AllPaddleHitboxes> on the world of the game: the two paddle
\* entities, each a (Paddle, Transform) pair
AllPaddleHitboxes(pads) ==
    [i \in 1..2 |->
        LET player == IF i = 1 THEN "Player1" ELSE "Player2" IN
        [player |-> player, move_dir |-> pads[player].move_dir,
         tf |-> PaddleTransform(pads, player)]]

\* Mutation: a side with more than one paddle entity is refused as well
FromQueryExactlyOne(query, player) ==
    LET found == { i \in DOMAIN query : query[i].player = player } IN
    IF Cardinality(found) # 1
    THEN [panics |-> TRUE, item |-> None]
    ELSE [panics |-> FALSE,
          item |-> Some(query[CHOOSE i \in found : \A j \in found : i <= j])]

\* PaddleHitbox::from_query: the first item of the query that belongs to
\* player; panic!("PlayerId ... was not found") when the loop ends
FromQuery(query, player) ==
    LET found == { i \in DOMAIN query : query[i].player = player } IN
    IF found = {}
    THEN [panics |-> TRUE, item |-> None]
    ELSE [panics |-> FALSE,
          item |-> Some(query[CHOOSE i \in found : \A j \in found : i <= j])]

\* Mutation: the plane is half a paddle width from the anchored edge
HitboxPlaneOriginHalf(h) ==
    LET x_offset == IF h.player = "Player1" THEN h.tf.scale[1] \div 2
                    ELSE -(h.tf.scale[1] \div 2)
    IN <<h.tf.translation[1] + x_offset, h.tf.translation[2]>>

\* PaddleHitbox::plane_origin, top_y, bot_y, movement_dir on one hitbox
HitboxPlaneOrigin(h) ==
    LET x_offset == IF h.player = "Player1" THEN h.tf.scale[1] ELSE -h.tf.scale[1]
    IN <<h.tf.translation[1] + x_offset, h.tf.translation[2]>>
HitboxTopY(h) == h.tf.translation[2] + (h.tf.scale[2] \div 2)
HitboxBotY(h) == h.tf.translation[2] - (h.tf.scale[2] \div 2)
HitboxMovementDir(h) == h.move_dir

\* PaddleHitbox::from_query(paddles, player) followed by an accessor, as
\* collide_once calls them
PlaneOrigin(pads, player) ==
    HitboxPlaneOrigin(FromQuery(AllPaddleHitboxes(pads), player).item.val)
TopY(pads, player) ==
    HitboxTopY(FromQuery(AllPaddleHitboxes(pads), player).item.val)
BotY(pads, player) ==
    HitboxBotY(FromQuery(AllPaddleHitboxes(pads), player).item.val)
MovementDir(pads, player) ==
    HitboxMovementDir(FromQuery(AllPaddleHitboxes(pads), player).item.val)

----------------------------------------------------------------------------
(* ball.rs: collide_once *)

\* Mutation: the left paddle maps like the right one (mapping not mirrored)
PaddleSpinNotMirrored(player, move_dir) ==
    CASE move_dir = "Up" -> "CounterClockwise"
      [] move_dir = "Down" -> "Clockwise"
      [] OTHER -> "None"

\* "Applied spin on ball": the two match blocks on hitbox.movement_dir()
PaddleSpin(player, move_dir) ==
    IF player = "Player2"
    THEN CASE move_dir = "Up" -> "CounterClockwise"
           [] move_dir = "Down" -> "Clockwise"
           [] OTHER -> "None"
    ELSE CASE move_dir = "Up" -> "Clockwise"
           [] move_dir = "Down" -> "CounterClockwise"
           [] OTHER -> "None"

\* How far from center of ball should it "collide" with objects
BallRad(tf) == tf.scale[1] \div 2

\* let wall = ...: (plane origin offset for ball size, plane normal)
WallOf(b, tf) ==
    IF b.movement_dir[2] > 0
    THEN [origin |-> <<0, (ARENA_HEIGHT \div 2) - BallRad(tf)>>, normal |-> <<0, -1>>]
    ELSE [origin |-> <<0, -(ARENA_HEIGHT \div 2) + BallRad(tf)>>, normal |-> <<0, 1>>]

\* the paddle the ball is heading for
PaddleSide(b) == IF b.movement_dir[1] > 0 THEN "Player2" ELSE "Player1"

\* let paddle = ...: (plane origin, plane normal, bot, top, applied spin)
PaddleOf(b, tf, pads) ==
    IF b.movement_dir[1] > 0
    THEN [origin |-> <<PlaneOrigin(pads, "Player2")[1] - BallRad(tf),
                       PlaneOrigin(pads, "Player2")[2]>>,
          normal |-> <<-1, 0>>,
          bot |-> BotY(pads, "Player2") - BallRad(tf),
          top |-> TopY(pads, "Player2") + BallRad(tf),
          spin |-> PaddleSpin("Player2", MovementDir(pads, "Player2"))]
    ELSE [origin |-> <<PlaneOrigin(pads, "Player1")[1] + BallRad(tf),
                       PlaneOrigin(pads, "Player1")[2]>>,
          normal |-> <<1, 0>>,
          bot |-> BotY(pads, "Player1") - BallRad(tf),
          top |-> TopY(pads, "Player1") + BallRad(tf),
          spin |-> PaddleSpin("Player1", MovementDir(pads, "Player1"))]

\* struct Collision(dist, plane, Option<CurveDir>, Option<Vec2>)
NoCollision == [some |-> FALSE, dist |-> 0, normal |-> <<0, 0>>,
                curve |-> None, point |-> None]

\* Mutations of PaddleCollision
PaddleCollisionNoExtent(dist_budget, b, tf, pads) ==
    LET paddle == PaddleOf(b, tf, pads)
        d == IntersectPlane(tf.translation, b.movement_dir, paddle.origin, paddle.normal)
    IN IF d.some /\ d.val <= dist_budget
       THEN [some |-> TRUE, dist |-> d.val, normal |-> paddle.normal,
             curve |-> Some(paddle.spin),
             point |-> Some(GetPoint(tf.translation, b.movement_dir, d.val))]
       ELSE NoCollision

PaddleCollisionStrict(dist_budget, b, tf, pads) ==
    LET paddle == PaddleOf(b, tf, pads)
        d == IntersectPlane(tf.translation, b.movement_dir, paddle.origin, paddle.normal)
    IN IF d.some /\ d.val <= dist_budget
       THEN LET impact_point == GetPoint(tf.translation, b.movement_dir, d.val) IN
            IF impact_point[2] > paddle.bot /\ impact_point[2] < paddle.top
            THEN [some |-> TRUE, dist |-> d.val, normal |-> paddle.normal,
                  curve |-> Some(paddle.spin), point |-> Some(impact_point)]
            ELSE NoCollision
       ELSE NoCollision

\* Mutation: a paddle exactly at the end of the budget is out of reach
PaddleCollisionBeforeBudgetEnd(dist_budget, b, tf, pads) ==
    LET paddle == PaddleOf(b, tf, pads)
        d == IntersectPlane(tf.translation, b.movement_dir, paddle.origin, paddle.normal)
    IN IF d.some /\ d.val < dist_budget
       THEN LET impact_point == GetPoint(tf.translation, b.movement_dir, d.val) IN
            IF impact_point[2] >= paddle.bot /\ impact_point[2] <= paddle.top
            THEN [some |-> TRUE, dist |-> d.val, normal |-> paddle.normal,
                  curve |-> Some(paddle.spin), point |-> Some(impact_point)]
            ELSE NoCollision
       ELSE NoCollision

\* let mut paddle_collision ...
PaddleCollision(dist_budget, b, tf, pads) ==
    LET paddle == PaddleOf(b, tf, pads)
        d == IntersectPlane(tf.translation, b.movement_dir, paddle.origin, paddle.normal)
    IN IF d.some /\ d.val <= dist_budget
       THEN LET impact_point == GetPoint(tf.translation, b.movement_dir, d.val) IN
            IF impact_point[2] >= paddle.bot /\ impact_point[2] <= paddle.top
            THEN [some |-> TRUE, dist |-> d.val, normal |-> paddle.normal,
                  curve |-> Some(paddle.spin), point |-> Some(impact_point)]
            ELSE NoCollision
       ELSE NoCollision

\* Mutation: the wall is accepted whatever the remaining budget
WallCollisionNoBudget(dist_budget, b, tf) ==
    LET wall == WallOf(b, tf)
        d == IntersectPlane(tf.translation, b.movement_dir, wall.origin, wall.normal)
    IN IF d.some
       THEN [some |-> TRUE, dist |-> d.val, normal |-> wall.normal,
             curve |-> None, point |-> None]
       ELSE NoCollision

\* let mut wall_collision ...
WallCollision(dist_budget, b, tf) ==
    LET wall == WallOf(b, tf)
        d == IntersectPlane(tf.translation, b.movement_dir, wall.origin, wall.normal)
    IN IF d.some /\ d.val <= dist_budget
       THEN [some |-> TRUE, dist |-> d.val, normal |-> wall.normal,
             curve |-> None, point |-> None]
       ELSE NoCollision

\* Mutation: a collision that carries no curve (a wall) clears the spin
ApplyCollisionWallClearsCurve(st, ray, collision) ==
    LET impact_point == IF collision.point.some THEN collision.point.val
                        ELSE GetPoint(ray.origin, ray.direction, collision.dist)
        reflected == Reflect(st.ball.movement_dir, collision.normal)
    IN [ball |-> [st.ball EXCEPT
                     !.movement_dir = reflected,
                     !.curve = IF collision.curve.some
                               THEN ApplyCurve(st.ball.curve, collision.curve.val)
                               ELSE ApplyCurve(st.ball.curve, "None")],
        ball_tf |-> [st.ball_tf EXCEPT !.translation = impact_point],
        panics |-> st.panics \/ (collision.curve.some
                                 /\ ApplyCurvePanics(st.ball.curve, collision.curve.val))]

\* the closure apply_collision; st = [ball, ball_tf, panics], ray = ball_ray,
\* which was built from the ball before any collision of this call
ApplyCollision(st, ray, collision) ==
    LET impact_point == IF collision.point.some THEN collision.point.val
                        ELSE GetPoint(ray.origin, ray.direction, collision.dist)
        reflected == Reflect(st.ball.movement_dir, collision.normal)
    IN [ball |-> [st.ball EXCEPT
                     !.movement_dir = reflected,
                     !.curve = IF collision.curve.some
                               THEN ApplyCurve(st.ball.curve, collision.curve.val)
                               ELSE st.ball.curve],
        ball_tf |-> [st.ball_tf EXCEPT !.translation = impact_point],
        panics |-> st.panics \/ (collision.curve.some
                                 /\ ApplyCurvePanics(st.ball.curve, collision.curve.val))]

\* what one collide_once call leaves behind and returns
Outcome(st, ret, hit) ==
    [ball |-> st.ball, ball_tf |-> st.ball_tf, panics |-> st.panics,
     ret |-> ret, hit |-> hit]

\* Mutation: at equal distances only the wall is applied
CollideOnceCornerWallOnly(dist_budget, b, tf, pads) ==
    LET pad_imp == PaddleCollision(dist_budget, b, tf, pads)
        wall_imp == WallCollision(dist_budget, b, tf)
        ray == [origin |-> tf.translation, direction |-> b.movement_dir]
        st == [ball |-> b, ball_tf |-> tf, panics |-> FALSE]
    IN CASE pad_imp.some /\ wall_imp.some /\ pad_imp.dist < wall_imp.dist ->
              Outcome(ApplyCollision(st, ray, pad_imp), Some(pad_imp.dist), "paddle")
         [] pad_imp.some /\ wall_imp.some /\ wall_imp.dist <= pad_imp.dist ->
              Outcome(ApplyCollision(st, ray, wall_imp), Some(wall_imp.dist), "wall")
         [] ~pad_imp.some /\ wall_imp.some ->
              Outcome(ApplyCollision(st, ray, wall_imp), Some(wall_imp.dist), "wall")
         [] pad_imp.some /\ ~wall_imp.some ->
              Outcome(ApplyCollision(st, ray, pad_imp), Some(pad_imp.dist), "paddle")
         [] OTHER -> Outcome(st, None, "none")

\* Mutation: with both candidates present the paddle is applied, nearer or not
CollideOncePaddleFirst(dist_budget, b, tf, pads) ==
    LET pad_imp == PaddleCollision(dist_budget, b, tf, pads)
        wall_imp == WallCollision(dist_budget, b, tf)
        ray == [origin |-> tf.translation, direction |-> b.movement_dir]
        st == [ball |-> b, ball_tf |-> tf, panics |-> FALSE]
    IN CASE pad_imp.some /\ wall_imp.some /\ pad_imp.dist # wall_imp.dist ->
              Outcome(ApplyCollision(st, ray, pad_imp), Some(pad_imp.dist), "paddle")
         [] pad_imp.some /\ wall_imp.some ->
              Outcome(ApplyCollision(ApplyCollision(st, ray, wall_imp), ray, pad_imp),
                      Some(pad_imp.dist), "corner")
         [] ~pad_imp.some /\ wall_imp.some ->
              Outcome(ApplyCollision(st, ray, wall_imp), Some(wall_imp.dist), "wall")
         [] pad_imp.some /\ ~wall_imp.some ->
              Outcome(ApplyCollision(st, ray, pad_imp), Some(pad_imp.dist), "paddle")
         [] OTHER -> Outcome(st, None, "none")

\* collide_once: the match on (paddle_collision, wall_collision)
MatchCollisions(st, ray, pad_imp, wall_imp) ==
    CASE pad_imp.some /\ wall_imp.some /\ pad_imp.dist < wall_imp.dist ->
           Outcome(ApplyCollision(st, ray, pad_imp), Some(pad_imp.dist), "paddle")
      [] pad_imp.some /\ wall_imp.some /\ wall_imp.dist < pad_imp.dist ->
           Outcome(ApplyCollision(st, ray, wall_imp), Some(wall_imp.dist), "wall")
      [] pad_imp.some /\ wall_imp.some ->
           \* Hitting wall and paddle at same dist (corner)
           Outcome(ApplyCollision(ApplyCollision(st, ray, wall_imp), ray, pad_imp),
                   Some(pad_imp.dist), "corner")
      [] ~pad_imp.some /\ wall_imp.some ->
           Outcome(ApplyCollision(st, ray, wall_imp), Some(wall_imp.dist), "wall")
      [] pad_imp.some /\ ~wall_imp.some ->
           Outcome(ApplyCollision(st, ray, pad_imp), Some(pad_imp.dist), "paddle")
      [] OTHER -> Outcome(st, None, "none")

\* collide_once: ball_ray, the two candidate collisions, then the match
CollideOnce(dist_budget, b, tf, pads) ==
    MatchCollisions([ball |-> b, ball_tf |-> tf, panics |-> FALSE],
                    [origin |-> tf.translation, direction |-> b.movement_dir],
                    PaddleCollision(dist_budget, b, tf, pads),
                    WallCollision(dist_budget, b, tf))

----------------------------------------------------------------------------
(* score.rs: the Score resource, the text entities and handle_player_score *)

WINNING_SCORE == 10

\* u8::to_string: the decimal digits, most significant first
RECURSIVE ScoreToString(_)
ScoreToString(n) ==
    IF n < 10 THEN <<n>> ELSE Append(ScoreToString(n \div 10), n % 10)

\* Score::default, and the four entities setup spawns: ScoreText "0" and a
\* hidden WinText for each player
ScoreAtSetup == [p1 |-> 0, p2 |-> 0]
ScoreTextsAtSetup == [p \in PlayerId |-> ScoreToString(0)]
WinTextsAtSetup == [p \in PlayerId |-> "Hidden"]

\* the match on scorer: the score and the score text of that player
AddScore(st, scorer) ==
    IF scorer = "Player1"
    THEN [st EXCEPT !.score.p1 = @ + 1,
                    !.score_texts.Player1 = ScoreToString(st.score.p1 + 1)]
    ELSE [st EXCEPT !.score.p2 = @ + 1,
                    !.score_texts.Player2 = ScoreToString(st.score.p2 + 1)]

\* Detect if either player has won: the chain of the two comparisons
WinnerOf(score) ==
    IF score.p1 >= WINNING_SCORE THEN Some("Player1")
    ELSE IF score.p2 >= WINNING_SCORE THEN Some("Player2")
    ELSE None

\* event_writer.write(MaxScoreReached); *pN_win_txt = Visibility::Visible
ShowWin(st, winner) ==
    [st EXCEPT !.max_score = @ + 1, !.win_texts[winner] = "Visible"]

\* Mutation: the loop goes on after a win
RECURSIVE ReadPlayerScoredNoBreak(_, _)
ReadPlayerScoredNoBreak(st, events) ==
    IF events = <<>> THEN [st EXCEPT !.unread = <<>>]
    ELSE LET added == AddScore(st, Head(events))
             winner == WinnerOf(added.score)
         IN IF winner.some
            THEN ReadPlayerScoredNoBreak(ShowWin(added, winner.val), Tail(events))
            ELSE ReadPlayerScoredNoBreak(added, Tail(events))

\* for PlayerScored(scorer) in events.read(): st is the score, the texts and
\* the MaxScoreReached messages written so far; the messages after a break
\* stay unread
RECURSIVE ReadPlayerScored(_, _)
ReadPlayerScored(st, events) ==
    IF events = <<>> THEN [st EXCEPT !.unread = <<>>]
    ELSE LET added == AddScore(st, Head(events))
             winner == WinnerOf(added.score)
         IN IF winner.some
            THEN [ShowWin(added, winner.val) EXCEPT !.unread = Tail(events)]
            ELSE ReadPlayerScored(added, Tail(events))

----------------------------------------------------------------------------
(* bevy_dyn_fontsize: the debouncer and the two systems of the plugin *)

DEFAULT_DEBOUNCE_DURATION == (100 * TicksPerSec) \div 1000

\* a quotient of two f32 values, as the fraction in lowest terms
RECURSIVE Gcd(_, _)
Gcd(a, b) == IF b = 0 THEN a ELSE Gcd(b, a % b)
Ratio(num, den) == <<num \div Gcd(num, den), den \div Gcd(num, den)>>

\* TextFont::default().font_size and Transform::default().scale
DefaultFontSize == Ratio(20, 1)
DefaultScale == Ratio(1, 1)

\* WindowResizeDebouncer::from_duration, and a world without window, cameras
\* and text entities; order is the order in which the fonts query yields the
\* text entities
FontAtBuild(duration) ==
    [timer |-> TimerDefault, duration |-> duration, window_height |-> 0,
     cams |-> <<>>, fonts |-> <<>>, order |-> <<>>]

\* the body of handle_window_resize: the debouncer after it
WindowResize(font, pending) ==
    IF pending > 0
    THEN [font EXCEPT !.timer = TimerNew(font.duration, FALSE)]
    ELSE font

\* projections.get(font_cfg.render_camera) is Ok(Projection::Orthographic(_))
IsOrthographic(font, cam) ==
    cam \in DOMAIN font.cams /\ font.cams[cam].kind = "Orthographic"

\* the sizing of one text entity: the body of the for loop after the let-else
ResizeText(font, txt) ==
    LET cam_height == font.cams[font.fonts[txt].render_camera].height
        win_height == font.window_height
    IN IF cam_height > 0 /\ win_height > 0
       THEN [font EXCEPT
                !.fonts[txt].font_size =
                    Ratio(font.fonts[txt].height_in_world * win_height, cam_height),
                !.fonts[txt].scale = Ratio(cam_height, win_height)]
       ELSE font

\* for (font_cfg, font, transform) in fonts: todo is what the query has yet
\* to yield; the else branch of the let-else returns from the system
RECURSIVE ResizeLoop(_, _)
ResizeLoop(font, todo) ==
    IF todo = <<>> THEN font
    ELSE IF ~IsOrthographic(font, font.fonts[Head(todo)].render_camera)
    THEN font
    ELSE ResizeLoop(ResizeText(font, Head(todo)), Tail(todo))

\* the body of handle_font_resize
FontResize(font, dt) ==
    LET ticked == [font EXCEPT !.timer = TimerTick(font.timer, dt)]
    IN IF ~(ticked.timer.times_finished_this_tick > 0) THEN ticked
       ELSE ResizeLoop(ticked, ticked.order)

----------------------------------------------------------------------------
(* Bounds *)

MaxCalls  == 5    \* direct apply_curve calls in one run
MaxFrames == 2    \* move_and_collide runs in one run
MaxRuns   == 2    \* runs of single systems in one unit-test run
MaxUpdates == 3   \* runs of the Update schedule (frames) of the assembled game
MaxEntities == 2  \* paddle entities in a world built by a unit test

----------------------------------------------------------------------------
(* State after construction, and the states the unit tests construct *)

\* setup_paddles: both paddles vertically centred, Paddle::new
PaddlesAtSetup == [p \in PlayerId |-> [y |-> 0, move_dir |-> "None"]]

\* setup_ball
BallAtSetup == [movement_dir |-> <<DirNorm, 0>>, paused |-> TRUE,
                curve |-> CurveStateDefault]
BallTfAtSetup == [translation |-> <<0, 0>>, z |-> 0, rotation |-> 0,
                  scale |-> <<BALL_SIZE, BALL_SIZE>>]

\* lib.rs: round timing, in ticks
TIME_BEFORE_FIRST_ROUND_SECS == 2 * TicksPerSec
TIME_BETWEEN_ROUNDS_SECS     == 1 * TicksPerSec
TIME_BETWEEN_GAMES_SECS      == 3 * TicksPerSec

\* init_resource::<RoundStartTimer>, init_resource::<IsBetweenGames>, then
\* start_first_round_timer in PostStartup
\* and, of the ScorePlugin, insert_resource(Score::default()) and setup
ResAtSetup == [round_timer |-> TimerNew(TIME_BEFORE_FIRST_ROUND_SECS, FALSE),
               between_games |-> FALSE,
               score |-> ScoreAtSetup,
               score_texts |-> ScoreTextsAtSetup,
               win_texts |-> WinTextsAtSetup,
               font |-> FontAtBuild(DEFAULT_DEBOUNCE_DURATION)]

\* Sprite::default() has Color::WHITE
White == <<255, 255, 255>>
SpriteAtSetup == [color |-> White]

\* no message has been written
NoMsgs == [off_screen |-> <<>>, reset |-> 0, start |-> 0, scored |-> <<>>,
           clear_scores |-> 0, max_score |-> 0, window_resized |-> 0]

\* the Update schedule has not run yet
NoApp == [n |-> 0, delta |-> 0, keys |-> {}, ran |-> {}, input |-> {}]

\* no operation has run and no frame of move_and_collide has begun: the
\* records hold the world as set up
NoCall == [op |-> "none", arg |-> "None",
           before |-> [ball |-> BallAtSetup, ball_tf |-> BallTfAtSetup,
                       move_dist |-> 0, paddles |-> PaddlesAtSetup,
                       sprite |-> SpriteAtSetup, msgs |-> NoMsgs],
           result |-> [hit |-> "none", ret |-> None]]

NoFrame == [n |-> 0, dt |-> 0, budget |-> 0, ball |-> BallAtSetup,
            ball_tf |-> BallTfAtSetup, paddles |-> PaddlesAtSetup,
            dir |-> <<0, 0>>, hits |-> <<>>, done |-> FALSE]

InitSetup ==
    /\ sprite = SpriteAtSetup
    /\ msgs = NoMsgs
    /\ res = ResAtSetup
    /\ app = NoApp
    /\ ball = BallAtSetup
    /\ ball_tf = BallTfAtSetup
    /\ paddles = PaddlesAtSetup
    /\ pc = "idle"
    /\ move_dist = 0
    /\ panicked = FALSE
    /\ last_call = NoCall
    /\ calls = <<>>
    /\ frame = NoFrame

\* the planes a ball centre collides with
HitPlaneX  == (ARENA_WIDTH \div 2) - PADDLE_WIDTH - (BALL_SIZE \div 2)
WallPlaneY == (ARENA_HEIGHT \div 2) - (BALL_SIZE \div 2)
\* reach of a paddle above and below its centre, for a ball centre
PaddleReach == (PADDLE_HEIGHT \div 2) + (BALL_SIZE \div 2)
\* the time in which the ball travels 5 world units
FiveUnits == (5 * WorldUnit) \div (BALL_SPEED \div TicksPerSec)
\* positions are drawn on multiples of this step
LatticeStep == WorldUnit \div 5200

\* test_move_and_collide_helper: balls one 3-4-5 triangle (4 across, 3 up)
\* before a paddle plane, aimed at the corner, at a paddle hit followed by a
\* wall hit, at a wall hit followed by a paddle hit, at the very end of a
\* centred paddle and one step beyond that end; and their mirror images
InitYsUp ==
    { WallPlaneY - 3 * WorldUnit,
      WallPlaneY - (15 * WorldUnit) \div 4,
      WallPlaneY - (9 * WorldUnit) \div 4,
      PaddleReach - 3 * WorldUnit,
      PaddleReach + LatticeStep - 3 * WorldUnit }
InitPositions ==
    { <<sx * (HitPlaneX - 4 * WorldUnit), sy * y>> :
          sx \in {-1, 1}, sy \in {-1, 1}, y \in InitYsUp }
InitDirs ==
    { <<sx * 52, sy * 39>> : sx \in {-1, 1}, sy \in {-1, 1} }
        \cup { <<sx * 39, sy * 52>> : sx \in {-1, 1}, sy \in {-1, 1} }
        \cup { <<DirNorm, 0>>, <<-DirNorm, 0>> }
InitCurves ==
    { CurveStateDefault,
      ApplyCurve(ApplyCurve(CurveStateDefault, "CounterClockwise"), "CounterClockwise"),
      ApplyCurve(ApplyCurve(ApplyCurve(CurveStateDefault, "Clockwise"),
                            "Clockwise"), "Clockwise") }
InitPaddles ==
    { [p \in PlayerId |-> [y |-> y, move_dir |-> m]] :
          y \in {0, PADDLE_CLAMP_Y, -PADDLE_CLAMP_Y}, m \in MoveDirection }
\* frame times: 5 world units of travel and 1.5, 2, 2.5 times that (the
\* unit tests' times), and the times in which level 3 and level 2 bend the
\* trajectory by a quarter turn
DeltaChoices ==
    { FiveUnits, (3 * FiveUnits) \div 2, 2 * FiveUnits, (5 * FiveUnits) \div 2,
      QuarterTurn \div 6, QuarterTurn \div 3 }

\* test_move_while_paused, and paused balls that would bend, move and collide
\* if they were not paused
PausedPositions ==
    { <<0, 0>>, <<HitPlaneX - 4 * WorldUnit, WallPlaneY - 3 * WorldUnit>> }
PausedDirs == { <<DirNorm, 0>>, <<52, 39>> }

\* test_move_collide_with_curve: a ball left of the centre whose direction is
\* a quarter turn away from straight right
CurvedPositions == { <<-6 * WorldUnit, 0>> }
CurvedDirs == { <<0, DirNorm>>, <<0, -DirNorm>> }

\* a ball three units below the top wall and four units before the right
\* paddle's plane, heading up to either side, with the paddles as set up
InitLoop ==
    /\ ball_tf = [BallTfAtSetup EXCEPT !.translation =
                     <<HitPlaneX - 4 * WorldUnit, WallPlaneY - 3 * WorldUnit>>]
    /\ ball \in { [movement_dir |-> <<sx * 52, 39>>, paused |-> FALSE,
                    curve |-> CurveStateDefault] : sx \in {-1, 1} }
    /\ paddles = PaddlesAtSetup
    /\ sprite = SpriteAtSetup
    /\ msgs = NoMsgs
    /\ res = ResAtSetup
    /\ app = NoApp
    /\ pc = "idle"
    /\ move_dist = 0
    /\ panicked = FALSE
    /\ last_call = NoCall
    /\ calls = <<>>
    /\ frame = NoFrame

\* balls left of the centre, on the centre line or 7.2 units from a wall: a
\* level-3 curve turns them by a quarter turn in the time in which they
\* travel 12 units, 7.2 of them towards the wall along <<52, 39>>
WallPositions ==
    { <<-6 * WorldUnit, sy * (WallPlaneY - (36 * WorldUnit) \div 5)>> :
          sy \in {-1, 0, 1} }
WallDirs ==
    { <<sx * 39, sy * 52>> : sx \in {-1, 1}, sy \in {-1, 1} }
        \cup { <<52, 39>>, <<52, -39>> }

InitWall ==
    /\ ball_tf \in { [BallTfAtSetup EXCEPT !.translation = p] :
                        p \in WallPositions }
    /\ ball \in { [movement_dir |-> d, paused |-> FALSE, curve |-> c] :
                     d \in WallDirs, c \in InitCurves }
    /\ paddles \in InitPaddles
    /\ sprite = SpriteAtSetup
    /\ msgs = NoMsgs
    /\ res = ResAtSetup
    /\ app = NoApp
    /\ pc = "idle"
    /\ move_dist = 0
    /\ panicked = FALSE
    /\ last_call = NoCall
    /\ calls = <<>>
    /\ frame = NoFrame

InitMove ==
    /\ \/ /\ ball_tf \in { [BallTfAtSetup EXCEPT !.translation = p] :
                              p \in InitPositions }
          /\ ball \in { [movement_dir |-> d, paused |-> FALSE, curve |-> c] :
                           d \in InitDirs, c \in InitCurves }
       \/ /\ ball_tf = BallTfAtSetup
          /\ ball = BallAtSetup
       \/ /\ ball_tf \in { [BallTfAtSetup EXCEPT !.translation = p] :
                              p \in PausedPositions }
          /\ ball \in { [movement_dir |-> d, paused |-> TRUE, curve |-> c] :
                           d \in PausedDirs, c \in InitCurves }
       \/ /\ ball_tf \in { [BallTfAtSetup EXCEPT !.translation = p] :
                              p \in CurvedPositions }
          /\ ball \in { [movement_dir |-> d, paused |-> FALSE, curve |-> c] :
                           d \in CurvedDirs, c \in InitCurves }
    /\ paddles \in InitPaddles
    /\ sprite = SpriteAtSetup
    /\ msgs = NoMsgs
    /\ res = ResAtSetup
    /\ app = NoApp
    /\ pc = "idle"
    /\ move_dist = 0
    /\ panicked = FALSE
    /\ last_call = NoCall
    /\ calls = <<>>
    /\ frame = NoFrame

----------------------------------------------------------------------------------------------------------------------------------------------------
(* Model adequacy: the runs the model follows compute in exact arithmetic *)

\* every division the next loop iteration performs is exact: the model's
\* lattice is fine enough for the runs it explores
PlaneExact(tf, b, plane) ==
    LET den == Dot(plane.normal, b.movement_dir)
        num == Dot(<<plane.origin[1] - tf.translation[1],
                     plane.origin[2] - tf.translation[2]>>, plane.normal)
    IN den # 0 =>
          /\ Divides(den, num * DirNorm)
          /\ LET d == Quot(num * DirNorm, den) IN
             d > 0 => /\ (b.movement_dir[1] * d) % DirNorm = 0
                      /\ (b.movement_dir[2] * d) % DirNorm = 0
ArithmeticExact ==
    pc = "loop" =>
        /\ PlaneExact(ball_tf, ball, WallOf(ball, ball_tf))
        /\ PlaneExact(ball_tf, ball, PaddleOf(ball, ball_tf, paddles))
        /\ (ball.movement_dir[1] * move_dist) % DirNorm = 0
        /\ (ball.movement_dir[2] * move_dist) % DirNorm = 0

\* the first loop iteration of a run that starts with direction dir and
\* budget dist is exact
ExactStart(tf, b, dist) ==
    /\ PlaneExact(tf, b, WallOf(b, tf))
    /\ PlaneExact(tf, b, PaddleOf(b, tf, paddles))
    /\ (b.movement_dir[1] * dist) % DirNorm = 0
    /\ (b.movement_dir[2] * dist) % DirNorm = 0

\* the state an operation found, kept in last_call
Before == [ball |-> ball, ball_tf |-> ball_tf, move_dist |-> move_dist,
           paddles |-> paddles, sprite |-> sprite, msgs |-> msgs]

----------------------------------------------------------------------------
(* Direct CurveState::apply_curve calls (as the unit tests make them) *)

ApplyCurveCall(dir) ==
    /\ ~panicked
    /\ Len(calls) < MaxCalls
    /\ ball' = [ball EXCEPT !.curve = ApplyCurve(ball.curve, dir)]
    /\ panicked' = ApplyCurvePanics(ball.curve, dir)
    /\ calls' = Append(calls, dir)
    /\ last_call' = [op |-> "apply_curve", arg |-> dir,
                     before |-> Before,
                     result |-> [hit |-> "none", ret |-> None]]
    /\ UNCHANGED <<ball_tf, paddles, pc, move_dist, frame, sprite, msgs, res, app>>

----------------------------------------------------------------------------
(* ball.rs: move_and_collide, one action per step of the system.  The      *)
(* MoveAndCollide* actions are the system itself, under any schedule;      *)
(* MovePaused, MoveBegin, MoveCollide and MoveFinish run it on its own,    *)
(* as the unit tests do.                                                   *)

\* Mutation: the paused flag is not looked at
MovesAlways(b) == TRUE

\* if !ball.paused
Moves(b) == ~b.paused

\* a paused ball: the system does nothing
MoveAndCollidePaused(dt) ==
    /\ pc = "idle" /\ ~panicked
    /\ ~Moves(ball)
    /\ frame' = [n |-> frame.n + 1, dt |-> dt, budget |-> 0, ball |-> ball,
                 ball_tf |-> ball_tf, paddles |-> paddles,
                 dir |-> ball.movement_dir,
                 hits |-> <<>>, done |-> TRUE]
    /\ last_call' = [op |-> "move_and_collide", arg |-> "paused",
                     before |-> Before,
                     result |-> [hit |-> "none", ret |-> None]]
    /\ UNCHANGED <<ball, ball_tf, paddles, pc, move_dist, panicked, calls,
                   sprite, msgs, res>>

\* up to the loop: bend the trajectory, compute the travel budget
MoveAndCollideBegin(dt) ==
    /\ pc = "idle" /\ ~panicked
    /\ Moves(ball)
    /\ IsQuarterTurns(GetTrajectoryDelta(ball.curve, dt))
    /\ ExactStart(ball_tf,
                  [ball EXCEPT !.movement_dir =
                      Rotate(GetTrajectoryDelta(ball.curve, dt), ball.movement_dir)],
                  dt * (BALL_SPEED \div TicksPerSec))
    /\ LET trajectory_delta == GetTrajectoryDelta(ball.curve, dt)
           dir == Rotate(trajectory_delta, ball.movement_dir)
           budget == dt * (BALL_SPEED \div TicksPerSec)
       IN /\ ball' = [ball EXCEPT !.movement_dir = dir]
          /\ move_dist' = budget
          /\ frame' = [n |-> frame.n + 1, dt |-> dt, budget |-> budget,
                       ball |-> ball, ball_tf |-> ball_tf,
                       paddles |-> paddles, dir |-> dir,
                       hits |-> <<>>, done |-> FALSE]
    /\ pc' = "loop"
    /\ last_call' = [op |-> "move_and_collide", arg |-> "begin",
                     before |-> Before,
                     result |-> [hit |-> "none", ret |-> None]]
    /\ UNCHANGED <<ball_tf, paddles, panicked, calls, sprite, msgs, res>>

\* one loop iteration in which collide_once returns Some(dist)
MoveAndCollideIter ==
    /\ pc = "loop" /\ ~panicked
    /\ \E r \in {CollideOnce(move_dist, ball, ball_tf, paddles)} :
       /\ r.ret.some
       /\ ball' = r.ball
       /\ ball_tf' = r.ball_tf
       /\ panicked' = r.panics
       /\ move_dist' = move_dist - r.ret.val
       /\ frame' = [frame EXCEPT !.hits = Append(frame.hits, r.hit)]
       /\ last_call' = [op |-> "collide_once", arg |-> "None",
                        before |-> Before,
                        result |-> [hit |-> r.hit, ret |-> r.ret]]
    /\ UNCHANGED <<paddles, pc, calls, sprite, msgs, res>>

\* the iteration in which collide_once returns None: leave the loop and
\* advance the ball by what is left of the budget
MoveAndCollideEnd ==
    /\ pc = "loop" /\ ~panicked
    /\ \E r \in {CollideOnce(move_dist, ball, ball_tf, paddles)} :
       /\ ~r.ret.some
       /\ ball_tf' = [ball_tf EXCEPT !.translation =
                         <<ball_tf.translation[1]
                               + Quot(ball.movement_dir[1] * move_dist, DirNorm),
                           ball_tf.translation[2]
                               + Quot(ball.movement_dir[2] * move_dist, DirNorm)>>]
       /\ last_call' = [op |-> "collide_once", arg |-> "None",
                        before |-> Before,
                        result |-> [hit |-> r.hit, ret |-> r.ret]]
    /\ pc' = "idle"
    /\ move_dist' = 0
    /\ frame' = [frame EXCEPT !.done = TRUE]
    /\ UNCHANGED <<ball, paddles, panicked, calls, sprite, msgs, res>>

\* move_and_collide as a function of the ball, the paddles and the frame
\* time: the loop `while let Some(dist) = collide_once(..)` and the advance
\* by what is left; r is the result of the collide_once call of an iteration
RECURSIVE ResolveCollisions(_, _, _, _)
ResolveStep(dist, b, tf, pads, r) ==
    IF r.ret.some
    THEN ResolveCollisions(dist - r.ret.val, r.ball, r.ball_tf, pads)
    ELSE [ball |-> b,
          ball_tf |-> [tf EXCEPT !.translation =
                          <<tf.translation[1] + Quot(b.movement_dir[1] * dist, DirNorm),
                            tf.translation[2] + Quot(b.movement_dir[2] * dist, DirNorm)>>]]
ResolveCollisions(dist, b, tf, pads) ==
    ResolveStep(dist, b, tf, pads, CollideOnce(dist, b, tf, pads))

MoveAndCollideOf(b, tf, pads, dt) ==
    IF Moves(b)
    THEN ResolveCollisions(dt * (BALL_SPEED \div TicksPerSec),
                           [b EXCEPT !.movement_dir =
                               Rotate(GetTrajectoryDelta(b.curve, dt), @)],
                           tf, pads)
    ELSE [ball |-> b, ball_tf |-> tf]

\* every division of that computation is exact
RECURSIVE ExactRun(_, _, _, _)
ExactStep(dist, b, tf, pads, r) ==
    r.ret.some => ExactRun(dist - r.ret.val, r.ball, r.ball_tf, pads)
ExactRun(dist, b, tf, pads) ==
    /\ PlaneExact(tf, b, WallOf(b, tf))
    /\ PlaneExact(tf, b, PaddleOf(b, tf, pads))
    /\ (b.movement_dir[1] * dist) % DirNorm = 0
    /\ (b.movement_dir[2] * dist) % DirNorm = 0
    /\ ExactStep(dist, b, tf, pads, CollideOnce(dist, b, tf, pads))

MovePaused(dt) ==
    frame.n < MaxFrames /\ MoveAndCollidePaused(dt) /\ UNCHANGED app
MoveBegin(dt) ==
    frame.n < MaxFrames /\ MoveAndCollideBegin(dt) /\ UNCHANGED app
MoveCollide == MoveAndCollideIter /\ UNCHANGED app
MoveFinish == MoveAndCollideEnd /\ UNCHANGED app

----------------------------------------------------------------------------
(* ball.rs: the other Update systems of the BallPlugin.  Each action is   *)
(* one run of the system, under any schedule.                              *)

\* a whole turn, in angle units
FullTurn == 4 * QuarterTurn

NoResult == [hit |-> "none", ret |-> None]

\* apply_curve_visuals: the sprite colour from get_color, then the rotation
\* of the transform turned by get_rotation_delta
ApplyCurveVisuals(dt) ==
    /\ pc = "idle" /\ ~panicked
    /\ \E c \in {GetColor(ball.curve, dt)} :
          /\ ball' = [ball EXCEPT !.curve = c.curve]
          /\ sprite' = [sprite EXCEPT !.color = c.color]
          /\ ball_tf' = [ball_tf EXCEPT !.rotation =
                            (@ + GetRotationDelta(c.curve, dt)) % FullTurn]
    /\ panicked' = GetColorPanics(ball.curve)
    /\ last_call' = [op |-> "apply_curve_visuals", arg |-> "None", dt |-> dt,
                     before |-> Before, result |-> NoResult]
    /\ UNCHANGED <<paddles, pc, move_dist, calls, frame, msgs, res>>

\* Mutation: a ball exactly at the threshold counts as off screen
OffScreenMsgsInclusive(b, tf) ==
    IF b.paused THEN <<>>
    ELSE IF Abs(tf.translation[1]) >= BALL_OFF_SCREEN_X_MAG
         THEN <<IF tf.translation[1] > 0 THEN "Right" ELSE "Left">>
         ELSE <<>>

\* the BallOffScreen messages one run of detect_ball_off_screen writes
OffScreenMsgs(b, tf) ==
    IF b.paused THEN <<>>
    ELSE IF Abs(tf.translation[1]) > BALL_OFF_SCREEN_X_MAG
         THEN <<IF tf.translation[1] > 0 THEN "Right" ELSE "Left">>
         ELSE <<>>

\* detect_ball_off_screen
DetectBallOffScreen ==
    /\ pc = "idle" /\ ~panicked
    /\ msgs' = [msgs EXCEPT !.off_screen = @ \o OffScreenMsgs(ball, ball_tf)]
    /\ last_call' = [op |-> "detect_ball_off_screen", arg |-> "None",
                     before |-> Before, result |-> NoResult]
    /\ UNCHANGED <<ball, ball_tf, paddles, pc, move_dist, panicked, calls, frame,
                   sprite, res>>

\* Mutation: the reset forgets the curve
ResetBallOfKeepsCurve(b, tf) ==
    [ball |-> [b EXCEPT !.paused = TRUE],
     ball_tf |-> [tf EXCEPT !.translation = <<0, 0>>, !.rotation = 0]]

\* the body of handle_reset_ball
ResetBallOf(b, tf) ==
    [ball |-> [b EXCEPT !.curve = ApplyCurve(b.curve, "None"), !.paused = TRUE],
     ball_tf |-> [tf EXCEPT !.translation = <<0, 0>>, !.rotation = 0]]

\* handle_reset_ball
HandleResetBall ==
    /\ pc = "idle" /\ ~panicked
    /\ IF msgs.reset > 0
       THEN /\ msgs' = [msgs EXCEPT !.reset = 0]
            /\ \E r \in {ResetBallOf(ball, ball_tf)} :
                  ball' = r.ball /\ ball_tf' = r.ball_tf
            /\ panicked' = ApplyCurvePanics(ball.curve, "None")
       ELSE UNCHANGED <<msgs, ball, ball_tf, panicked>>
    /\ last_call' = [op |-> "handle_reset_ball", arg |-> "None",
                     before |-> Before, result |-> NoResult]
    /\ UNCHANGED <<paddles, pc, move_dist, calls, frame, sprite, res>>

\* tan(PI / 7) = 0.48157..., as a fraction
TanStartAngle == <<48157, 100000>>

\* rng.random_range(-(PI / 7)..(PI / 7)), as the direction the angle turns
\* Vec3::X to: the lattice directions pointing right within the range
StartAngles ==
    { v \in (1..DirNorm) \X ((-DirNorm)..DirNorm) :
         /\ Dot(v, v) = DirNorm * DirNorm
         /\ Abs(v[2]) * TanStartAngle[2] < TanStartAngle[1] * v[1] }

\* Mutation: the flip turns by 90 degrees
StartDirQuarterFlip(v, flip) == IF flip THEN <<-v[2], v[1]>> ELSE v

\* rotation_quat * Vec3::X, with the 180 degree flip when rng.random_bool says so
StartDir(v, flip) == IF flip THEN <<-v[1], -v[2]>> ELSE v

\* handle_start_ball; v and flip are what the random generator yields
HandleStartBall(v, flip) ==
    /\ pc = "idle" /\ ~panicked
    /\ v \in StartAngles
    /\ IF msgs.start > 0
       THEN /\ msgs' = [msgs EXCEPT !.start = 0]
            /\ ball' = [ball EXCEPT !.movement_dir = StartDir(v, flip),
                                    !.paused = FALSE]
       ELSE UNCHANGED <<msgs, ball>>
    /\ last_call' = [op |-> "handle_start_ball", arg |-> "None",
                     before |-> Before, result |-> NoResult]
    /\ UNCHANGED <<ball_tf, paddles, pc, move_dist, panicked, calls, frame,
                   sprite, res>>

----------------------------------------------------------------------------------------------------------------------------------------------------
(* paddle.rs: handle_input_move_paddles *)

\* world units per second; one tick moves PADDLE_MOVE_SPEED \div TicksPerSec
PADDLE_MOVE_SPEED == (15 * ARENA_HEIGHT) \div 10

KeyCode == {"KeyW", "KeyS", "ArrowUp", "ArrowDown"}

\* Mutation: the step is not cut off at the clamp
MovePaddleNoClamp(pad, up, down, distance) ==
    CASE up /\ ~down ->
           IF pad.y < PADDLE_CLAMP_Y
           THEN [y |-> pad.y + distance, move_dir |-> "Up"]
           ELSE [pad EXCEPT !.move_dir = "None"]
      [] ~up /\ down ->
           IF pad.y > -PADDLE_CLAMP_Y
           THEN [y |-> pad.y - distance, move_dir |-> "Down"]
           ELSE [pad EXCEPT !.move_dir = "None"]
      [] OTHER -> [pad EXCEPT !.move_dir = "None"]

\* one of the two match blocks: a paddle, whether its up and its down key
\* are pressed, and the distance of this frame
MovePaddle(pad, up, down, distance) ==
    CASE up /\ ~down ->
           IF pad.y < PADDLE_CLAMP_Y
           THEN [y |-> Min(pad.y + distance, PADDLE_CLAMP_Y), move_dir |-> "Up"]
           ELSE [pad EXCEPT !.move_dir = "None"]
      [] ~up /\ down ->
           IF pad.y > -PADDLE_CLAMP_Y
           THEN [y |-> Max(pad.y - distance, -PADDLE_CLAMP_Y), move_dir |-> "Down"]
           ELSE [pad EXCEPT !.move_dir = "None"]
      [] OTHER -> [pad EXCEPT !.move_dir = "None"]

HandleInputMovePaddles(dt, keys) ==
    /\ pc = "idle" /\ ~panicked
    /\ LET distance == dt * (PADDLE_MOVE_SPEED \div TicksPerSec) IN
       paddles' = [paddles EXCEPT
          !["Player1"] = MovePaddle(@, "KeyW" \in keys, "KeyS" \in keys, distance),
          !["Player2"] = MovePaddle(@, "ArrowUp" \in keys, "ArrowDown" \in keys,
                                    distance)]
    /\ last_call' = [op |-> "handle_input_move_paddles", arg |-> "None",
                     before |-> Before, result |-> NoResult]
    /\ UNCHANGED <<ball, ball_tf, pc, move_dist, panicked, calls, frame, sprite,
                   msgs, res>>

----------------------------------------------------------------------------
(* lib.rs: the systems of the PongPlugin *)

\* Mutation: finished() in place of just_finished()
JustFinishedSticky(t) == t.finished

\* Timer::just_finished
JustFinished(t) == t.times_finished_this_tick > 0

UpdateRoundTimer(dt) ==
    /\ pc = "idle" /\ ~panicked
    /\ \E t \in {TimerTick(res.round_timer, dt)} :
          IF JustFinished(t)
          THEN /\ res' = [res EXCEPT !.round_timer = t, !.between_games = FALSE]
               /\ msgs' = [msgs EXCEPT
                     !.clear_scores = IF res.between_games THEN @ + 1 ELSE @,
                     !.start = @ + 1]
          ELSE /\ res' = [res EXCEPT !.round_timer = t]
               /\ UNCHANGED msgs
    /\ last_call' = [op |-> "update_round_timer", arg |-> "None",
                     before |-> Before, result |-> NoResult]
    /\ UNCHANGED <<ball, ball_tf, paddles, pc, move_dist, panicked, calls, frame,
                   sprite>>

\* the player who scores when the ball leaves on a side
Scorer(side) == IF side = "Left" THEN "Player2" ELSE "Player1"

\* Mutation: every pending message scores
HandleBallOffScreenEach ==
    /\ pc = "idle" /\ ~panicked
    /\ IF msgs.off_screen # <<>>
       THEN /\ msgs' = [msgs EXCEPT
                     !.scored = @ \o [i \in 1..Len(msgs.off_screen) |->
                                         Scorer(msgs.off_screen[i])],
                     !.reset = @ + 1,
                     !.off_screen = <<>>]
            /\ res' = [res EXCEPT
                     !.round_timer = TimerNew(TIME_BETWEEN_ROUNDS_SECS, FALSE)]
       ELSE UNCHANGED <<msgs, res>>
    /\ last_call' = [op |-> "handle_ball_off_screen", arg |-> "None",
                     before |-> Before, result |-> NoResult]
    /\ UNCHANGED <<ball, ball_tf, paddles, pc, move_dist, panicked, calls, frame,
                   sprite>>

HandleBallOffScreen ==
    /\ pc = "idle" /\ ~panicked
    /\ IF msgs.off_screen # <<>>
       THEN /\ msgs' = [msgs EXCEPT
                     !.scored = Append(@, Scorer(Head(msgs.off_screen))),
                     !.reset = @ + 1,
                     !.off_screen = <<>>]
            /\ res' = [res EXCEPT
                     !.round_timer = TimerNew(TIME_BETWEEN_ROUNDS_SECS, FALSE)]
       ELSE UNCHANGED <<msgs, res>>
    /\ last_call' = [op |-> "handle_ball_off_screen", arg |-> "None",
                     before |-> Before, result |-> NoResult]
    /\ UNCHANGED <<ball, ball_tf, paddles, pc, move_dist, panicked, calls, frame,
                   sprite>>

HandleGameEnd ==
    /\ pc = "idle" /\ ~panicked
    /\ IF msgs.max_score > 0
       THEN /\ msgs' = [msgs EXCEPT !.max_score = 0]
            /\ res' = [res EXCEPT
                     !.round_timer = TimerNew(TIME_BETWEEN_GAMES_SECS, FALSE),
                     !.between_games = TRUE]
       ELSE UNCHANGED <<msgs, res>>
    /\ last_call' = [op |-> "handle_game_end", arg |-> "None",
                     before |-> Before, result |-> NoResult]
    /\ UNCHANGED <<ball, ball_tf, paddles, pc, move_dist, panicked, calls, frame,
                   sprite>>

\* score.rs: handle_player_score
HandlePlayerScore ==
    /\ pc = "idle" /\ ~panicked
    /\ IF msgs.scored # <<>>
       THEN \E r \in {ReadPlayerScored([score |-> res.score,
                                        score_texts |-> res.score_texts,
                                        win_texts |-> res.win_texts,
                                        max_score |-> msgs.max_score,
                                        unread |-> msgs.scored],
                                       msgs.scored)} :
               /\ res' = [res EXCEPT !.score = r.score,
                                     !.score_texts = r.score_texts,
                                     !.win_texts = r.win_texts]
               /\ msgs' = [msgs EXCEPT !.max_score = r.max_score,
                                       !.scored = r.unread]
       ELSE UNCHANGED <<msgs, res>>
    /\ last_call' = [op |-> "handle_player_score", arg |-> "None",
                     before |-> Before, result |-> NoResult]
    /\ UNCHANGED <<ball, ball_tf, paddles, pc, move_dist, panicked, calls, frame,
                   sprite>>

\* bevy_dyn_fontsize: handle_window_resize
HandleWindowResize ==
    /\ pc = "idle" /\ ~panicked
    /\ res' = [res EXCEPT !.font = WindowResize(@, msgs.window_resized)]
    /\ msgs' = [msgs EXCEPT !.window_resized = 0]
    /\ last_call' = [op |-> "handle_window_resize", arg |-> "None",
                     before |-> Before, result |-> NoResult]
    /\ UNCHANGED <<ball, ball_tf, paddles, pc, move_dist, panicked, calls, frame,
                   sprite>>

\* bevy_dyn_fontsize: handle_font_resize
HandleFontResize(dt) ==
    /\ pc = "idle" /\ ~panicked
    /\ res' = [res EXCEPT !.font = FontResize(@, dt)]
    /\ last_call' = [op |-> "handle_font_resize", arg |-> "None",
                     before |-> Before, result |-> NoResult]
    /\ UNCHANGED <<ball, ball_tf, paddles, pc, move_dist, panicked, calls, frame,
                   sprite, msgs>>

----
(* The systems of the BallPlugin run one at a time on a world a unit test  *)
(* has built (test_ball_off_screen_helper, test_reset_ball_sys,            *)
(* test_start_ball_sys, test_curve_visuals_sys, test_move_and_collide_helper) *)

\* CurveState { dir, cfg_idx, ..default() }
TestCurve(dir, idx) == [CurveStateDefault EXCEPT !.dir = dir, !.cfg_idx = idx]

SysCurves ==
    { CurveStateDefault,
      TestCurve("Clockwise", 2),
      TestCurve("CounterClockwise", 2),
      ApplyCurve(ApplyCurve(ApplyCurve(CurveStateDefault, "Clockwise"),
                            "Clockwise"), "Clockwise") }

\* ball x coordinates around the off-screen threshold
SysXs ==
    { 0, 2 * BALL_OFF_SCREEN_X_MAG,
      BALL_OFF_SCREEN_X_MAG, -BALL_OFF_SCREEN_X_MAG,
      BALL_OFF_SCREEN_X_MAG + LatticeStep, -(BALL_OFF_SCREEN_X_MAG + LatticeStep),
      BALL_OFF_SCREEN_X_MAG + WorldUnit, -(BALL_OFF_SCREEN_X_MAG + WorldUnit),
      BALL_OFF_SCREEN_X_MAG - WorldUnit }

\* the balls the tests spawn, as <<Ball, Transform>>
SysBalls ==
    { <<[movement_dir |-> <<DirNorm, 0>>, paused |-> p, curve |-> c],
        [BallTfAtSetup EXCEPT !.translation = <<x, 0>>]>> :
          p \in BOOLEAN, c \in SysCurves, x \in SysXs }
    \cup
    \* test_reset_ball_sys: a moved, turned, curving ball
    { <<[movement_dir |-> <<DirNorm, 0>>, paused |-> p,
         curve |-> TestCurve("Clockwise", 2)],
        [BallTfAtSetup EXCEPT !.translation = <<45 * (WorldUnit \div 10),
                                                -102 * (WorldUnit \div 100)>>,
                              !.z = 8, !.rotation = FullTurn \div 6]>> :
          p \in BOOLEAN }
    \cup
    \* balls about to hit a wall
    { <<[movement_dir |-> <<52, 39>>, paused |-> FALSE, curve |-> c],
        [BallTfAtSetup EXCEPT !.translation =
            <<HitPlaneX - 4 * WorldUnit, WallPlaneY - 3 * WorldUnit>>]>> :
          c \in SysCurves }

\* frame times: 5 world units of travel, half a second (more than two blink
\* periods), the time of a quarter-turn bend at level 3
SysDeltas == { FiveUnits, TicksPerSec \div 2, QuarterTurn \div 6 }

InitSys ==
    /\ \E bt \in SysBalls : ball = bt[1] /\ ball_tf = bt[2]
    /\ msgs \in { [NoMsgs EXCEPT !.reset = r, !.start = st] :
                      r \in 0..2, st \in 0..1 }
    /\ paddles = PaddlesAtSetup
    /\ sprite = SpriteAtSetup
    /\ res = ResAtSetup
    /\ app = NoApp
    /\ pc = "idle"
    /\ move_dist = 0
    /\ panicked = FALSE
    /\ last_call = NoCall
    /\ calls = <<>>
    /\ frame = NoFrame

\* one more system has been run on the world
OneMoreRun == app.n < MaxRuns /\ app' = [app EXCEPT !.n = @ + 1]

DetectRun == OneMoreRun /\ DetectBallOffScreen
ResetRun == OneMoreRun /\ HandleResetBall
StartRun(v, flip) == OneMoreRun /\ HandleStartBall(v, flip)
VisualsRun(dt) == OneMoreRun /\ ApplyCurveVisuals(dt)
MovePausedRun(dt) == OneMoreRun /\ MoveAndCollidePaused(dt)
MoveBeginRun(dt) == OneMoreRun /\ MoveAndCollideBegin(dt)

----------------------------------------------------------------------------
(* bevy_dyn_fontsize: an app with the DynamicFontsizePlugin, a window, the  *)
(* cameras and the text entities of test_handle_font_resize_system          *)

FontSystems == { "handle_window_resize", "handle_font_resize" }

\* p_ortho with the area height of the test, p_persp; Entity::PLACEHOLDER is
\* no camera
TestCams ==
    [p_ortho |-> [kind |-> "Orthographic", height |-> 20],
     p_persp |-> [kind |-> "Perspective", height |-> 0]]

\* txt1 .. txt4
TestFonts ==
    [txt1 |-> [height_in_world |-> 4, render_camera |-> "p_ortho",
               font_size |-> DefaultFontSize, scale |-> DefaultScale],
     txt2 |-> [height_in_world |-> 30, render_camera |-> "p_ortho",
               font_size |-> DefaultFontSize, scale |-> DefaultScale],
     txt3 |-> [height_in_world |-> 100, render_camera |-> "p_persp",
               font_size |-> DefaultFontSize, scale |-> DefaultScale],
     txt4 |-> [height_in_world |-> 100, render_camera |-> "PLACEHOLDER",
               font_size |-> DefaultFontSize, scale |-> DefaultScale]]

\* orders in which the fonts query may yield the four entities
QueryOrders ==
    { <<"txt1", "txt2", "txt3", "txt4">>, <<"txt1", "txt3", "txt2", "txt4">>,
      <<"txt4", "txt1", "txt2", "txt3">>, <<"txt2", "txt4", "txt3", "txt1">> }

\* window heights in pixels: minimised, and the two sizes a resize switches
\* between
WindowHeights == { 0, 200, 400 }
ResizedHeight(h) == IF h = 200 THEN 400 ELSE 200

\* frame times: half the debounce time and the whole of it
FontDeltas == { DEFAULT_DEBOUNCE_DURATION \div 2, DEFAULT_DEBOUNCE_DURATION }

InitFont ==
    /\ ball = BallAtSetup
    /\ ball_tf = BallTfAtSetup
    /\ paddles = PaddlesAtSetup
    /\ sprite = SpriteAtSetup
    /\ msgs = NoMsgs
    /\ res \in { [ResAtSetup EXCEPT
                      !.font = [FontAtBuild(DEFAULT_DEBOUNCE_DURATION) EXCEPT
                                   !.window_height = h, !.cams = TestCams,
                                   !.fonts = TestFonts, !.order = o]] :
                     h \in WindowHeights, o \in QueryOrders }
    /\ app = [n |-> 0, delta |-> 0, keys |-> {}, ran |-> {}, input |-> {},
              since |-> -1]
    /\ pc = "idle"
    /\ move_dist = 0
    /\ panicked = FALSE
    /\ last_call = NoCall
    /\ calls = <<>>
    /\ frame = NoFrame

\* a frame begins: Time advances by dt and the window has been resized
\* (resized = TRUE: a WindowResized message is there and the window has its
\* new height) or not; app.since is the time from the beginning of the
\* latest frame with a WindowResized message, -1 while there was none
BeginFontUpdate(dt, resized) ==
    /\ pc = "idle" /\ ~panicked
    /\ app.n = 0 \/ app.ran = FontSystems
    /\ app.n < MaxUpdates
    /\ app' = [n |-> app.n + 1, delta |-> dt, keys |-> {}, ran |-> {},
               input |-> {},
               since |-> IF resized THEN dt
                         ELSE IF app.since < 0 THEN -1 ELSE app.since + dt]
    /\ IF resized
       THEN /\ msgs' = [msgs EXCEPT !.window_resized = @ + 1]
            /\ res' = [res EXCEPT !.font.window_height = ResizedHeight(@)]
       ELSE UNCHANGED <<msgs, res>>
    /\ UNCHANGED <<ball, ball_tf, paddles, pc, move_dist, panicked, last_call,
                   calls, frame, sprite>>

----------------------------------------------------------------------------
(* paddle.rs: handle_input_move_paddles run on a world a unit test has     *)
(* built (run_handle_input_scenario)                                       *)

\* the paddle heights of the tests (centre, either clamp) and one a 5 ms
\* step short of overshooting the upper clamp
PaddleYs ==
    { 0, PADDLE_CLAMP_Y, -PADDLE_CLAMP_Y,
      PADDLE_CLAMP_Y - 10 * (PADDLE_MOVE_SPEED \div TicksPerSec) }

\* Duration::ZERO (the first frame of an app), 5 ms and 5 s
PaddleDeltas == { 0, (5 * TicksPerSec) \div 1000, 5 * TicksPerSec }

InitPaddle ==
    /\ ball = BallAtSetup
    /\ ball_tf = BallTfAtSetup
    /\ paddles \in { [p \in PlayerId |-> [y |-> y, move_dir |-> "None"]] :
                       y \in PaddleYs }
    /\ sprite = SpriteAtSetup
    /\ msgs = NoMsgs
    /\ res = ResAtSetup
    /\ app = NoApp
    /\ pc = "idle"
    /\ move_dist = 0
    /\ panicked = FALSE
    /\ last_call = NoCall
    /\ calls = <<>>
    /\ frame = NoFrame

\* one run of the system with the Time and the ButtonInput the test inserted
InputRun(dt, keys) ==
    /\ app.n < MaxRuns
    /\ app' = [app EXCEPT !.n = @ + 1, !.delta = dt, !.keys = keys]
    /\ HandleInputMovePaddles(dt, keys)

----------------------------------------------------------------------------
(* score.rs: handle_player_score run on a world a unit test has built      *)
(* (test_handle_player_score_system)                                       *)

\* the scores the test sets: a fresh game, and one point before the win
TestScores == { [p1 |-> a, p2 |-> b] : a, b \in {0, WINNING_SCORE - 1} }

\* send_event(PlayerScored(..)): up to three pending messages
ScoredInputs == UNION { [1..n -> PlayerId] : n \in 0..3 }

InitScore ==
    /\ ball = BallAtSetup
    /\ ball_tf = BallTfAtSetup
    /\ paddles = PaddlesAtSetup
    /\ sprite = SpriteAtSetup
    /\ msgs \in { [NoMsgs EXCEPT !.scored = in] : in \in ScoredInputs }
    /\ res \in { [ResAtSetup EXCEPT
                      !.score = sc,
                      !.score_texts = [Player1 |-> ScoreToString(sc.p1),
                                       Player2 |-> ScoreToString(sc.p2)]] :
                     sc \in TestScores }
    /\ app = NoApp
    /\ pc = "idle"
    /\ move_dist = 0
    /\ panicked = FALSE
    /\ last_call = NoCall
    /\ calls = <<>>
    /\ frame = NoFrame

\* world.send_event(PlayerScored(scorer)) between two runs
SendPlayerScored(scorer) ==
    /\ pc = "idle" /\ ~panicked
    /\ app.n < MaxRuns /\ Len(msgs.scored) < 3
    /\ msgs' = [msgs EXCEPT !.scored = Append(@, scorer)]
    /\ last_call' = [op |-> "send_event", arg |-> scorer,
                     before |-> Before, result |-> NoResult]
    /\ UNCHANGED <<ball, ball_tf, paddles, pc, move_dist, panicked, calls, frame,
                   sprite, res, app>>

PlayerScoreRun == OneMoreRun /\ HandlePlayerScore

----------------------------------------------------------------------------
(* lib.rs: the systems of the PongPlugin run one at a time on a world a    *)
(* unit test has built (test_update_timer_sys_helper,                      *)
(* test_ball_off_screen_sys_helper, test_game_end_system)                  *)

\* time.advance_by: 500 ms and 1000 ms
LibDeltas == { TicksPerSec \div 2, TicksPerSec }

\* input_events: up to three BallOffScreen messages
OffScreenInputs ==
    UNION { [1..n -> {"Left", "Right"}] : n \in 0..3 }

\* the round timers the tests insert: Timer::from_seconds(1, Once) and the
\* default one of init_resource
LibTimers == { TimerNew(TicksPerSec, FALSE), TimerDefault }

InitLib ==
    /\ ball = BallAtSetup
    /\ ball_tf = BallTfAtSetup
    /\ paddles = PaddlesAtSetup
    /\ sprite = SpriteAtSetup
    /\ msgs \in { [NoMsgs EXCEPT !.off_screen = in, !.max_score = m] :
                      in \in OffScreenInputs, m \in 0..1 }
    /\ res \in { [ResAtSetup EXCEPT !.round_timer = t, !.between_games = b] :
                     t \in LibTimers, b \in BOOLEAN }
    /\ app = NoApp
    /\ pc = "idle"
    /\ move_dist = 0
    /\ panicked = FALSE
    /\ last_call = NoCall
    /\ calls = <<>>
    /\ frame = NoFrame

TimerRun(dt) == OneMoreRun /\ UpdateRoundTimer(dt)
OffScreenRun == OneMoreRun /\ HandleBallOffScreen
GameEndRun == OneMoreRun /\ HandleGameEnd

----------------------------------------------------------------------------------------------------------------------------------------------------------------------------------------------------------------------------
(* CurveState::apply_curve and CurveState::get_color called directly on a  *)
(* CurveState a unit test has built (test_apply_curve_same,                *)
(* test_apply_curve_cap) or on the default one.                            *)

BlinkTime == BALL_CURVE_CFG_L3.color.blink_time

BlinkCurves ==
    { CurveStateDefault,
      TestCurve("Clockwise", 2),
      [TestCurve("Clockwise", 3) EXCEPT !.color_idx = 2] }

\* Duration::ZERO, one blink period, half a second (two periods and a rest),
\* three periods
BlinkDeltas == { 0, BlinkTime, TicksPerSec \div 2, 3 * BlinkTime }

InitBlink ==
    /\ ball \in { [BallAtSetup EXCEPT !.curve = c] : c \in BlinkCurves }
    /\ ball_tf = BallTfAtSetup
    /\ sprite = SpriteAtSetup
    /\ msgs = NoMsgs
    /\ res = ResAtSetup
    /\ app = NoApp
    /\ paddles = PaddlesAtSetup
    /\ pc = "idle"
    /\ move_dist = 0
    /\ panicked = FALSE
    /\ last_call = NoCall
    /\ calls = <<>>
    /\ frame = NoFrame

\* curve_state.get_color(time_delta)
GetColorCall(dt) ==
    /\ ~panicked
    /\ Len(calls) < MaxCalls
    /\ \E c \in {GetColor(ball.curve, dt)} :
          /\ ball' = [ball EXCEPT !.curve = c.curve]
          /\ last_call' = [op |-> "get_color", arg |-> dt, before |-> Before,
                           result |-> [hit |-> "none", ret |-> None,
                                       color |-> c.color]]
    /\ panicked' = GetColorPanics(ball.curve)
    /\ calls' = Append(calls, "get_color")
    /\ UNCHANGED <<ball_tf, paddles, pc, move_dist, frame, sprite, msgs, res, app>>

----
(* The hitbox API called on a world a unit test has built (paddle.rs       *)
(* test_hitbox_api): any paddle entities, in any iteration order.          *)

\* translations of the test's paddles and of the paddles of the game
HitboxTranslations ==
    { <<10 * WorldUnit, 3 * WorldUnit>>, <<-5 * WorldUnit, 8 * WorldUnit>>,
      <<-(ARENA_WIDTH \div 2), 0>>, <<ARENA_WIDTH \div 2, PADDLE_CLAMP_Y>> }

HitboxItems ==
    { [player |-> p, move_dir |-> m,
       tf |-> [translation |-> t, scale |-> <<PADDLE_WIDTH, PADDLE_HEIGHT>>]] :
          p \in PlayerId, m \in MoveDirection, t \in HitboxTranslations }

RECURSIVE QueriesOfLen(_)
QueriesOfLen(n) ==
    IF n = 0 THEN { <<>> }
    ELSE { Append(q, h) : q \in QueriesOfLen(n - 1), h \in HitboxItems }

HitboxQueries == UNION { QueriesOfLen(n) : n \in 0..MaxEntities }

\* from_query on a query, then every accessor on the hitbox it returned;
\* the world, and so the query, stays the same from call to call
HitboxCall(query, player) ==
    /\ pc = "idle" /\ ~panicked
    /\ last_call.op = "from_query" => last_call.arg.query = query
    /\ \E r \in {FromQuery(query, player)} :
          /\ panicked' = r.panics
          /\ last_call' =
                [op |-> "from_query",
                 arg |-> [query |-> query, player |-> player],
                 before |-> Before,
                 result |-> IF r.panics
                            THEN [hit |-> "none", ret |-> None, hitbox |-> None]
                            ELSE [hit |-> "none", ret |-> None,
                                  hitbox |-> r.item,
                                  plane_origin |-> HitboxPlaneOrigin(r.item.val),
                                  top_y |-> HitboxTopY(r.item.val),
                                  bot_y |-> HitboxBotY(r.item.val),
                                  movement_dir |-> HitboxMovementDir(r.item.val)]]
    /\ UNCHANGED <<ball, ball_tf, paddles, pc, move_dist, calls, frame, sprite,
                   msgs, res, app>>

----
(* The Update schedule of the assembled game (lib.rs PongPlugin::build,    *)
(* ball.rs BallPlugin::build, paddle.rs PaddlePlugin::build): every frame  *)
(* each system runs once, in any order the ordering constraints allow.     *)

Systems ==
    { "handle_input_move_paddles", "move_and_collide", "detect_ball_off_screen",
      "handle_reset_ball", "handle_start_ball", "apply_curve_visuals",
      "update_round_timer", "handle_ball_off_screen", "handle_game_end" }

\* Mutation: paddle::Systems::HandleInput.before(move_and_collide) is missing
OrderNoInputEdge ==
    { <<"move_and_collide", "detect_ball_off_screen">>,
      <<"move_and_collide", "apply_curve_visuals">>,
      <<"handle_reset_ball", "apply_curve_visuals">>,
      <<"handle_ball_off_screen", "handle_reset_ball">>,
      <<"detect_ball_off_screen", "handle_ball_off_screen">> }

\* Mutation: BallOffScreenSndr.before(handle_ball_off_screen) is missing
OrderNoSndrEdge ==
    { <<"handle_input_move_paddles", "move_and_collide">>,
      <<"move_and_collide", "detect_ball_off_screen">>,
      <<"move_and_collide", "apply_curve_visuals">>,
      <<"handle_reset_ball", "apply_curve_visuals">>,
      <<"handle_ball_off_screen", "handle_reset_ball">> }

\* the ordering constraints: <<a, b>> is a.before(b), with the system sets
\* replaced by their members
Order ==
    { \* paddle::Systems::HandleInput.before(move_and_collide)
      <<"handle_input_move_paddles", "move_and_collide">>,
      \* move_and_collide.before(detect_ball_off_screen).before(apply_curve_visuals)
      <<"move_and_collide", "detect_ball_off_screen">>,
      <<"move_and_collide", "apply_curve_visuals">>,
      \* handle_reset_ball.in_set(ResetBallRcvr).before(apply_curve_visuals)
      <<"handle_reset_ball", "apply_curve_visuals">>,
      \* handle_ball_off_screen.before(ball::Systems::ResetBallRcvr)
      <<"handle_ball_off_screen", "handle_reset_ball">>,
      \* ball::Systems::BallOffScreenSndr.before(handle_ball_off_screen)
      <<"detect_ball_off_screen", "handle_ball_off_screen">> }

\* a frame is under way and system s may run now
Ready(s) ==
    /\ app.n > 0
    /\ pc = "idle"
    /\ s \notin app.ran
    /\ \A e \in Order : e[2] = s => e[1] \in app.ran

\* system s has run in this frame
Ran(s) == app' = [app EXCEPT !.ran = @ \cup {s}]

\* frame times and keyboard states of the explored games
GameDeltas == { TicksPerSec \div 2, TicksPerSec }
GameKeys == { {}, {"KeyW", "ArrowUp"}, {"KeyS", "ArrowDown"}, {"KeyW", "KeyS", "ArrowUp"} }
\* the start angles from which a ball started at the centre stays on the lattice
GameStartAngles == { v \in StartAngles : v[2] % 5 = 0 }

\* the schedule starts over: Time advances by dt, the keyboard state is keys
BeginUpdate(dt, keys) ==
    /\ pc = "idle" /\ ~panicked
    /\ app.n = 0 \/ app.ran = Systems
    /\ app.n < MaxUpdates
    /\ app' = [n |-> app.n + 1, delta |-> dt, keys |-> keys, ran |-> {},
               input |-> {}]
    /\ UNCHANGED <<ball, ball_tf, paddles, pc, move_dist, panicked, last_call,
                   calls, frame, sprite, msgs, res>>

SysHandleInput ==
    /\ Ready("handle_input_move_paddles")
    /\ HandleInputMovePaddles(app.delta, app.keys)
    /\ app' = [app EXCEPT !.ran = @ \cup {"handle_input_move_paddles"},
                          !.input = paddles']

SysMovePaused ==
    /\ Ready("move_and_collide")
    /\ MoveAndCollidePaused(app.delta)
    /\ Ran("move_and_collide")

SysMoveBegin ==
    /\ Ready("move_and_collide")
    /\ MoveAndCollideBegin(app.delta)
    /\ UNCHANGED app

SysMoveCollide == app.n > 0 /\ MoveAndCollideIter /\ UNCHANGED app

SysMoveFinish == app.n > 0 /\ MoveAndCollideEnd /\ Ran("move_and_collide")

SysDetect ==
    Ready("detect_ball_off_screen") /\ DetectBallOffScreen
        /\ Ran("detect_ball_off_screen")

SysHandleBallOffScreen ==
    Ready("handle_ball_off_screen") /\ HandleBallOffScreen
        /\ Ran("handle_ball_off_screen")

SysHandleReset ==
    Ready("handle_reset_ball") /\ HandleResetBall /\ Ran("handle_reset_ball")

SysHandleStart(v, flip) ==
    Ready("handle_start_ball") /\ HandleStartBall(v, flip) /\ Ran("handle_start_ball")

SysVisuals ==
    Ready("apply_curve_visuals") /\ ApplyCurveVisuals(app.delta)
        /\ Ran("apply_curve_visuals")

SysUpdateRoundTimer ==
    Ready("update_round_timer") /\ UpdateRoundTimer(app.delta)
        /\ Ran("update_round_timer")

SysHandleGameEnd ==
    Ready("handle_game_end") /\ HandleGameEnd /\ Ran("handle_game_end")

SysWindowResize ==
    Ready("handle_window_resize") /\ HandleWindowResize
        /\ Ran("handle_window_resize")

SysFontResize ==
    Ready("handle_font_resize") /\ HandleFontResize(app.delta)
        /\ Ran("handle_font_resize")

----------------------------------------------------------------------------
(* An app with the BallPlugin alone (ball.rs BallPlugin::build): setup_ball *)
(* has run, every frame runs the ball's systems once in any order their    *)
(* constraints allow, the paddles are where the paddle module has put      *)
(* them, and ResetBall and StartBall messages come from the other modules. *)

BallSystems ==
    { "move_and_collide", "detect_ball_off_screen", "handle_reset_ball",
      "handle_start_ball", "apply_curve_visuals" }

\* the paddles at rest and moving up through the centre
BallPaddles ==
    { PaddlesAtSetup, [p \in PlayerId |-> [y |-> 0, move_dir |-> "Up"]] }

\* the frame time: in three quarters of a second the ball reaches a paddle
\* from the centre, and no curve level turns the sprite by whole turns
BallDelta == (3 * TicksPerSec) \div 4

\* a start straight at a paddle and one at an angle
BallStartAngles == { <<DirNorm, 0>>, <<60, 25>> }

\* the schedule starts over: Time advances by dt, the systems of the other
\* modules have moved the paddles, read the BallOffScreen messages and
\* sent reset ResetBall and start StartBall messages
BeginBallUpdate(dt, pads, reset, start) ==
    /\ pc = "idle" /\ ~panicked
    /\ app.n = 0 \/ app.ran = Systems
    /\ app.n < MaxUpdates
    /\ app' = [n |-> app.n + 1, delta |-> dt, keys |-> {},
               ran |-> Systems \ BallSystems, input |-> {}]
    /\ paddles' = pads
    /\ msgs' = [msgs EXCEPT !.off_screen = <<>>, !.reset = @ + reset,
                            !.start = @ + start]
    /\ UNCHANGED <<ball, ball_tf, pc, move_dist, panicked, last_call, calls,
                   frame, sprite, res>>

----------------------------------------------------------------------------
(* Rounds of the assembled game: the frames around the ball leaving the    *)
(* arena.  Time in the Update schedule is Time<Virtual>, whose delta is    *)
(* capped at 250 ms, so a round takes many frames to get here; the runs    *)
(* start from states of a round under way.                                 *)

\* frame times: 125 ms and the 250 ms cap
RoundDeltas == { TicksPerSec \div 8, TicksPerSec \div 4 }
RoundKeys == { {}, {"KeyS", "ArrowDown"} }

\* the round timer some frames after it has fired
TimerFired(duration) ==
    TimerTick(TimerTick(TimerNew(duration, FALSE), duration), TicksPerSec \div 8)

\* <<Ball, Transform, round timer>>: a ball in flight one unit before either
\* edge of the screen, and the ball waiting at the centre for a round timer
\* that has 125 ms left
RoundStates ==
    { <<[BallAtSetup EXCEPT !.paused = FALSE, !.movement_dir = <<sx * DirNorm, 0>>],
        [BallTfAtSetup EXCEPT !.translation =
            <<sx * (BALL_OFF_SCREEN_X_MAG - WorldUnit), 0>>],
        TimerFired(d)>> :
          sx \in {-1, 1},
          d \in {TIME_BEFORE_FIRST_ROUND_SECS, TIME_BETWEEN_ROUNDS_SECS} }
    \cup
    { <<BallAtSetup, BallTfAtSetup,
        TimerTick(TimerNew(TIME_BETWEEN_ROUNDS_SECS, FALSE),
                  TIME_BETWEEN_ROUNDS_SECS - TicksPerSec \div 8)>> }

\* the paddles in the middle, in the ball's way, and up at the clamp
RoundPaddles ==
    { [p \in PlayerId |-> [y |-> y, move_dir |-> "None"]] :
         y \in {0, PADDLE_CLAMP_Y} }

\* app also keeps, for the frame under way, the number of BallOffScreen
\* messages written in it and in the frame before it, and the number of
\* PlayerScored messages written before it
InitRound ==
    /\ \E st \in RoundStates :
          /\ ball = st[1]
          /\ ball_tf = st[2]
          /\ res = [ResAtSetup EXCEPT !.round_timer = st[3]]
    /\ paddles \in RoundPaddles
    /\ sprite = SpriteAtSetup
    /\ msgs = NoMsgs
    /\ app = [n |-> 0, delta |-> 0, keys |-> {}, ran |-> {}, input |-> {},
              emitted |-> 0, last_emitted |-> 0, scored |-> 0]
    /\ pc = "idle"
    /\ move_dist = 0
    /\ panicked = FALSE
    /\ last_call = NoCall
    /\ calls = <<>>
    /\ frame = NoFrame

BeginRoundUpdate(dt, keys) ==
    /\ pc = "idle" /\ ~panicked
    /\ app.n = 0 \/ app.ran = Systems
    /\ app.n < MaxUpdates
    /\ app' = [n |-> app.n + 1, delta |-> dt, keys |-> keys, ran |-> {},
               input |-> {}, emitted |-> 0, last_emitted |-> app.emitted,
               scored |-> Len(msgs.scored)]
    /\ UNCHANGED <<ball, ball_tf, paddles, pc, move_dist, panicked, last_call,
                   calls, frame, sprite, msgs, res>>

SysDetectRound ==
    /\ Ready("detect_ball_off_screen")
    /\ DetectBallOffScreen
    /\ app' = [app EXCEPT !.ran = @ \cup {"detect_ball_off_screen"},
                          !.emitted = Len(OffScreenMsgs(ball, ball_tf))]

----
(* Specifications *)

NextCurve == \E dir \in CurveDir : ApplyCurveCall(dir)

SpecCurve == InitSetup /\ [][NextCurve]_vars

NextMove ==
    \/ \E dt \in DeltaChoices : MovePaused(dt)
    \/ \E dt \in DeltaChoices : MoveBegin(dt)
    \/ MoveCollide
    \/ MoveFinish

SpecMove == InitMove /\ [][NextMove]_vars

\* move_and_collide run to its end: once the system has been started, each
\* step of its loop is taken as soon as it can be
NextLoop ==
    \/ \E dt \in DeltaChoices : MoveBegin(dt)
    \/ MoveCollide
    \/ MoveFinish

SpecLoop ==
    InitLoop /\ [][NextLoop]_vars /\ WF_vars(MoveCollide) /\ WF_vars(MoveFinish)

\* frames of move_and_collide on balls between the walls
SpecWall == InitWall /\ [][NextLoop]_vars

NextSys ==
    \/ DetectRun
    \/ ResetRun
    \/ \E v \in StartAngles, flip \in BOOLEAN : StartRun(v, flip)
    \/ \E dt \in SysDeltas : VisualsRun(dt)
    \/ \E dt \in SysDeltas : MovePausedRun(dt)
    \/ \E dt \in SysDeltas : MoveBeginRun(dt)
    \/ MoveCollide
    \/ MoveFinish

SpecSys == InitSys /\ [][NextSys]_vars

NextFont ==
    \/ \E dt \in FontDeltas, resized \in BOOLEAN : BeginFontUpdate(dt, resized)
    \/ SysWindowResize
    \/ SysFontResize

\* add_systems(Update, (handle_window_resize, handle_font_resize)): the two
\* systems run once a frame, in either order
SpecFont == InitFont /\ [][NextFont]_vars

NextPaddle == \E dt \in PaddleDeltas, keys \in SUBSET KeyCode : InputRun(dt, keys)

SpecPaddle == InitPaddle /\ [][NextPaddle]_vars

NextScore ==
    \/ \E scorer \in PlayerId : SendPlayerScored(scorer)
    \/ PlayerScoreRun

SpecScore == InitScore /\ [][NextScore]_vars

NextLib ==
    \/ \E dt \in LibDeltas : TimerRun(dt)
    \/ OffScreenRun
    \/ GameEndRun

SpecLib == InitLib /\ [][NextLib]_vars

NextBlink ==
    \/ \E dir \in CurveDir : ApplyCurveCall(dir)
    \/ \E dt \in BlinkDeltas : GetColorCall(dt)

SpecBlink == InitBlink /\ [][NextBlink]_vars

NextHitbox ==
    \/ /\ last_call.op = "none"
       /\ \E query \in HitboxQueries, player \in PlayerId : HitboxCall(query, player)
    \/ /\ last_call.op = "from_query"
       /\ \E player \in PlayerId : HitboxCall(last_call.arg.query, player)

SpecHitbox == InitSetup /\ [][NextHitbox]_vars

Next ==
    \/ \E dt \in GameDeltas, keys \in GameKeys : BeginUpdate(dt, keys)
    \/ SysHandleInput
    \/ SysMovePaused
    \/ SysMoveBegin
    \/ SysMoveCollide
    \/ SysMoveFinish
    \/ SysDetect
    \/ SysHandleBallOffScreen
    \/ SysHandleReset
    \/ \E v \in GameStartAngles, flip \in BOOLEAN : SysHandleStart(v, flip)
    \/ SysVisuals
    \/ SysUpdateRoundTimer
    \/ SysHandleGameEnd

\* the assembled game: PongPlugin on a world after Startup and PostStartup
Spec == InitSetup /\ [][Next]_vars

NextBall ==
    \/ \E pads \in BallPaddles, reset, start \in 0..1 :
          BeginBallUpdate(BallDelta, pads, reset, start)
    \/ SysMovePaused
    \/ SysMoveBegin
    \/ SysMoveCollide
    \/ SysMoveFinish
    \/ SysDetect
    \/ SysHandleReset
    \/ \E v \in BallStartAngles, flip \in BOOLEAN : SysHandleStart(v, flip)
    \/ SysVisuals

SpecBall == InitSetup /\ [][NextBall]_vars

NextRound ==
    \/ \E dt \in RoundDeltas, keys \in RoundKeys : BeginRoundUpdate(dt, keys)
    \/ SysHandleInput
    \/ SysMovePaused
    \/ SysMoveBegin
    \/ SysMoveCollide
    \/ SysMoveFinish
    \/ SysDetectRound
    \/ SysHandleBallOffScreen
    \/ SysHandleReset
    \/ \E v \in BallStartAngles, flip \in BOOLEAN : SysHandleStart(v, flip)
    \/ SysVisuals
    \/ SysUpdateRoundTimer
    \/ SysHandleGameEnd

SpecRound == InitRound /\ [][NextRound]_vars

----------------------------------------------------------------------------
(* Properties of CurveState::apply_curve (checked under SpecCurve) *)

CallsAllSame ==
    /\ calls # <<>>
    /\ calls[1] # "None"
    /\ \A i \in 1..Len(calls) : calls[i] = calls[1]

Opposite(dir) == IF dir = "Clockwise" THEN "CounterClockwise" ELSE "Clockwise"

\* C1: after any sequence of apply_curve calls with arbitrary arguments from
\* the default CurveState, cfg_idx is a valid index of the 4-entry level
\* table (0 <= cfg_idx <= 3) and no call has panicked.
C1_LevelInBounds ==
    /\ ball.curve.cfg_idx >= 0
    /\ ball.curve.cfg_idx <= 3
    /\ ~panicked

\* a fifth same-direction call has been made at the cap
C1_Witness ==
    /\ Len(calls) >= 5
    /\ CallsAllSame
    /\ ball.curve.cfg_idx = 3

\* C2: from the default CurveState, N >= 1 applications of the same non-None
\* direction leave dir equal to it and cfg_idx = min(N, 3); an application
\* made at level 3 changes nothing of the CurveState.
C2_SameDirectionCap ==
    CallsAllSame =>
        /\ ball.curve.dir = calls[1]
        /\ ball.curve.cfg_idx = Min(Len(calls), 3)
        /\ (Len(calls) > 3 => ball.curve = last_call.before.ball.curve)

C2_Witness ==
    /\ CallsAllSame
    /\ Len(calls) = 4
    /\ ball.curve.dir = "CounterClockwise"
    /\ ball.curve.cfg_idx = 3

\* C3: from every CurveState with direction Clockwise or CounterClockwise at
\* level 1..3, apply_curve with the opposite direction yields that direction
\* at level 1.
C3_Reversal ==
    (/\ last_call.op = "apply_curve"
     /\ last_call.before.ball.curve.dir \in {"Clockwise", "CounterClockwise"}
     /\ last_call.before.ball.curve.cfg_idx \in 1..3
     /\ last_call.arg = Opposite(last_call.before.ball.curve.dir))
    => /\ ball.curve.dir = last_call.arg
       /\ ball.curve.cfg_idx = 1

C3_Witness ==
    /\ last_call.op = "apply_curve"
    /\ last_call.before.ball.curve.dir = "Clockwise"
    /\ last_call.before.ball.curve.cfg_idx = 3
    /\ last_call.arg = "CounterClockwise"
    /\ ball.curve.cfg_idx = 1

\* C4: from every CurveState, apply_curve(None) yields direction None and
\* level 0; there get_rotation_delta and get_trajectory_delta are 0 for
\* every time delta and get_color is the solid colour of the level-0 entry.
C4_NoneResets ==
    (last_call.op = "apply_curve" /\ last_call.arg = "None")
    => /\ ball.curve.dir = "None"
       /\ ball.curve.cfg_idx = 0
       /\ \A dt \in DeltaChoices \cup {0, TicksPerSec} :
             /\ GetRotationDelta(ball.curve, dt) = 0
             /\ GetTrajectoryDelta(ball.curve, dt) = 0
             /\ GetColor(ball.curve, dt).color = BALL_CURVE_CFG_NONE.color.color

C4_Witness ==
    /\ last_call.op = "apply_curve"
    /\ last_call.arg = "None"
    /\ last_call.before.ball.curve.cfg_idx = 3
    /\ ball.curve.cfg_idx = 0

----------------------------------------------------------------------------
(* Properties of collide_once and move_and_collide (checked under SpecMove). *)
(* The geometry below is restated from the claims, not taken from the        *)
(* operators above: B is the record of the ball before a collide_once call.  *)

AfterCollideOnce == last_call.op = "collide_once"
B == last_call.before

\* the paddle the ball was heading for, and what the claim expects of it
HeadedFor(b) == IF b.movement_dir[1] > 0 THEN "Player2" ELSE "Player1"
ExpectedSpin(player, move_dir) ==
    CASE player = "Player2" /\ move_dir = "Up" -> "CounterClockwise"
      [] player = "Player2" /\ move_dir = "Down" -> "Clockwise"
      [] player = "Player1" /\ move_dir = "Up" -> "Clockwise"
      [] player = "Player1" /\ move_dir = "Down" -> "CounterClockwise"
      [] OTHER -> "None"
FaceX(b) == IF b.movement_dir[1] > 0 THEN HitPlaneX ELSE -HitPlaneX
WallY(b) == IF b.movement_dir[2] > 0 THEN WallPlaneY ELSE -WallPlaneY

\* the paddle face plane lies ahead of the ball, within the budget
CrossesFace(b, tf, budget) ==
    LET dx == b.movement_dir[1]
        gap == FaceX(b) - tf.translation[1]
    IN /\ dx # 0
       /\ gap * dx > 0
       /\ Abs(gap) * DirNorm <= budget * Abs(dx)
\* distance to the crossing and the Y at which the face plane is crossed
FaceDist(b, tf) ==
    Quot((FaceX(b) - tf.translation[1]) * DirNorm, b.movement_dir[1])
FaceY(b, tf) ==
    tf.translation[2]
        + Quot(b.movement_dir[2] * (FaceX(b) - tf.translation[1]), b.movement_dir[1])
WithinPaddle(pads, b, y) ==
    /\ y >= pads[HeadedFor(b)].y - PaddleReach
    /\ y <= pads[HeadedFor(b)].y + PaddleReach
\* the wall plane lies ahead of the ball, within the budget
ReachesWall(b, tf, budget) ==
    LET dy == b.movement_dir[2]
        gap == WallY(b) - tf.translation[2]
    IN /\ dy # 0
       /\ gap * dy > 0
       /\ Abs(gap) * DirNorm <= budget * Abs(dy)
WallDist(b, tf) ==
    Quot((WallY(b) - tf.translation[2]) * DirNorm, b.movement_dir[2])

PaddleHit(pads, b, tf, budget) ==
    CrossesFace(b, tf, budget) /\ WithinPaddle(pads, b, FaceY(b, tf))

\* C5: the spin passed to apply_curve on a paddle hit is a function of the
\* paddle side and that paddle's move direction: right paddle Up ->
\* CounterClockwise, Down -> Clockwise, None -> None; left paddle Up ->
\* Clockwise, Down -> CounterClockwise, None -> None.
C5_SpinMapping ==
    (AfterCollideOnce /\ last_call.result.hit \in {"paddle", "corner"})
    => ball.curve = ApplyCurve(B.ball.curve,
                               ExpectedSpin(HeadedFor(B.ball),
                                            B.paddles[HeadedFor(B.ball)].move_dir))

\* the left paddle, moving up, was hit by a ball without spin
C5_Witness ==
    /\ AfterCollideOnce
    /\ last_call.result.hit = "paddle"
    /\ B.ball.movement_dir[1] < 0
    /\ B.paddles["Player1"].move_dir = "Up"
    /\ B.ball.curve.dir = "None"
    /\ ball.curve.dir = "Clockwise"
    /\ ball.curve.cfg_idx = 1

\* C6: when a paddle hit and a wall hit are both found within the budget at
\* equal distance, both are applied at the same impact point: both direction
\* components are negated, apply_curve is called once with the paddle's
\* spin, and the distance is subtracted from the budget once.
CornerCase ==
    /\ AfterCollideOnce
    /\ PaddleHit(B.paddles, B.ball, B.ball_tf, B.move_dist)
    /\ ReachesWall(B.ball, B.ball_tf, B.move_dist)
    /\ FaceDist(B.ball, B.ball_tf) = WallDist(B.ball, B.ball_tf)

C6_CornerHit ==
    CornerCase =>
        /\ ball.movement_dir = <<-B.ball.movement_dir[1], -B.ball.movement_dir[2]>>
        /\ ball_tf.translation = <<FaceX(B.ball), WallY(B.ball)>>
        /\ ball.curve = ApplyCurve(B.ball.curve,
                                   ExpectedSpin(HeadedFor(B.ball),
                                                B.paddles[HeadedFor(B.ball)].move_dir))
        /\ last_call.result.ret = Some(FaceDist(B.ball, B.ball_tf))
        /\ move_dist = B.move_dist - FaceDist(B.ball, B.ball_tf)

\* a corner hit that strengthened the spin by exactly one level
C6_Witness ==
    /\ CornerCase
    /\ B.ball.curve.cfg_idx = 2
    /\ ball.curve.cfg_idx = 3
    /\ ball.curve.dir = B.ball.curve.dir

\* C7: when a paddle hit and a wall hit are both found within the budget at
\* different distances, one collide_once call applies only the nearer; the
\* loop goes on and meets the farther surface at the distance that is left;
\* a frame of a paddle hit then a wall hit, or a wall hit then a paddle hit,
\* ends with both direction components negated.
BothCase ==
    /\ AfterCollideOnce
    /\ PaddleHit(B.paddles, B.ball, B.ball_tf, B.move_dist)
    /\ ReachesWall(B.ball, B.ball_tf, B.move_dist)
    /\ FaceDist(B.ball, B.ball_tf) # WallDist(B.ball, B.ball_tf)

C7_NearerFirst ==
    /\ BothCase =>
        LET pd == FaceDist(B.ball, B.ball_tf)
            wd == WallDist(B.ball, B.ball_tf)
        IN /\ last_call.result.ret = Some(Min(pd, wd))
           /\ move_dist = B.move_dist - Min(pd, wd)
           /\ pc = "loop"
           /\ pd < wd =>
                 /\ ball.movement_dir = <<-B.ball.movement_dir[1], B.ball.movement_dir[2]>>
                 /\ ball_tf.translation[1] = FaceX(B.ball)
                 /\ ReachesWall(ball, ball_tf, move_dist)
                 /\ WallDist(ball, ball_tf) = wd - pd
           /\ wd < pd =>
                 /\ ball.movement_dir = <<B.ball.movement_dir[1], -B.ball.movement_dir[2]>>
                 /\ ball_tf.translation[2] = WallY(B.ball)
                 /\ ball.curve = B.ball.curve
                 /\ CrossesFace(ball, ball_tf, move_dist)
                 /\ FaceDist(ball, ball_tf) = pd - wd
    /\ (frame.done /\ frame.hits \in {<<"paddle", "wall">>, <<"wall", "paddle">>})
           => ball.movement_dir = <<-frame.dir[1], -frame.dir[2]>>

\* a frame that hit the wall first and then the paddle
C7_Witness ==
    /\ frame.done
    /\ frame.hits = <<"wall", "paddle">>
    /\ ball.movement_dir = <<-frame.dir[1], -frame.dir[2]>>

\* C8: after every collision collide_once applies, the ball lies exactly on
\* the collided plane (wall plane or paddle face plane, inset by the ball
\* radius), and the budget left is the budget before minus the consumed
\* distance, never negative.
C8_NoTunneling ==
    (AfterCollideOnce /\ last_call.result.ret.some) =>
        /\ last_call.result.hit \in {"wall", "paddle", "corner"}
        /\ last_call.result.hit \in {"wall", "corner"}
               => ball_tf.translation[2] = WallY(B.ball)
        /\ last_call.result.hit \in {"paddle", "corner"}
               => ball_tf.translation[1] = FaceX(B.ball)
        /\ move_dist = B.move_dist - last_call.result.ret.val
        /\ move_dist >= 0

\* a collision that used up the budget exactly
C8_Witness ==
    /\ AfterCollideOnce
    /\ last_call.result.hit = "wall"
    /\ B.move_dist > 0
    /\ move_dist = 0
    /\ ball_tf.translation[2] = -WallPlaneY

\* C9: in a frame where the ball is unpaused, has no curve, and no candidate
\* surface is reachable within the frame's budget (a paddle plane crossed
\* outside the paddle's extent is not one), move_and_collide leaves the
\* direction and the curve state unchanged and advances the position by
\* exactly direction * budget.
NothingReachable(pads, b, tf, budget) ==
    /\ ~(/\ b.movement_dir[2] # 0
         /\ (WallY(b) - tf.translation[2]) * b.movement_dir[2] >= 0
         /\ Abs(WallY(b) - tf.translation[2]) * DirNorm
                <= budget * Abs(b.movement_dir[2]))
    /\ ~(/\ b.movement_dir[1] # 0
         /\ (FaceX(b) - tf.translation[1]) * b.movement_dir[1] >= 0
         /\ Abs(FaceX(b) - tf.translation[1]) * DirNorm
                <= budget * Abs(b.movement_dir[1])
         /\ WithinPaddle(pads, b, FaceY(b, tf)))

FreeFrame ==
    /\ frame.done
    /\ ~frame.ball.paused
    /\ frame.ball.curve.dir = "None"
    /\ NothingReachable(frame.paddles, frame.ball, frame.ball_tf, frame.budget)

C9_NoCollisionFrame ==
    FreeFrame =>
        /\ ball.movement_dir = frame.ball.movement_dir
        /\ ball.curve = frame.ball.curve
        /\ frame.hits = <<>>
        /\ \A i \in 1..2 :
              ball_tf.translation[i] * DirNorm
                  = frame.ball_tf.translation[i] * DirNorm
                        + frame.ball.movement_dir[i] * frame.budget

\* a free frame in which the ball passed a paddle plane beside the paddle
C9_Witness ==
    /\ FreeFrame
    /\ Abs(frame.ball_tf.translation[1]) < HitPlaneX
    /\ Abs(ball_tf.translation[1]) > HitPlaneX
    /\ frame.ball.movement_dir[2] # 0

\* C10: a paddle-plane crossing within the budget is a paddle hit if and
\* only if the impact Y lies in the closed interval
\* [bot_y - ball_radius, top_y + ball_radius] of that paddle: at either
\* bound it is a hit, strictly outside it is a miss and the ball continues
\* past the plane.
C10_InclusiveExtent ==
    (AfterCollideOnce /\ CrossesFace(B.ball, B.ball_tf, B.move_dist)) =>
        LET y == FaceY(B.ball, B.ball_tf)
            d == FaceDist(B.ball, B.ball_tf)
            inside == /\ y >= BotY(B.paddles, HeadedFor(B.ball)) - (BALL_SIZE \div 2)
                      /\ y <= TopY(B.paddles, HeadedFor(B.ball)) + (BALL_SIZE \div 2)
        IN /\ PaddleCollision(B.move_dist, B.ball, B.ball_tf, B.paddles).some <=> inside
           /\ inside =>
                 \/ /\ last_call.result.hit \in {"paddle", "corner"}
                    /\ ball_tf.translation = <<FaceX(B.ball), y>>
                    /\ ball.movement_dir[1] = -B.ball.movement_dir[1]
                 \/ /\ last_call.result.hit = "wall"
                    /\ last_call.result.ret.val < d
           /\ ~inside =>
                 /\ last_call.result.hit \in {"wall", "none"}
                 /\ ball.movement_dir[1] = B.ball.movement_dir[1]
                 /\ last_call.result.hit = "none" =>
                        (ball_tf.translation[1] - FaceX(B.ball))
                            * B.ball.movement_dir[1] >= 0

\* a hit at exactly the upper bound of the paddle's extent
C10_Witness ==
    /\ AfterCollideOnce
    /\ last_call.result.hit = "paddle"
    /\ ball_tf.translation[2]
           = TopY(B.paddles, HeadedFor(B.ball)) + (BALL_SIZE \div 2)

\* a miss one lattice step beyond that bound: the ball went on past the plane
C10_WitnessMiss ==
    /\ AfterCollideOnce
    /\ CrossesFace(B.ball, B.ball_tf, B.move_dist)
    /\ FaceY(B.ball, B.ball_tf)
           = TopY(B.paddles, HeadedFor(B.ball)) + (BALL_SIZE \div 2) + LatticeStep
    /\ last_call.result.hit = "none"
    /\ Abs(ball_tf.translation[1]) > HitPlaneX

----------------------------------------------------------------------------
(* Properties of the paused ball (checked under SpecMove) *)

\* C11: while the ball is paused, a run of move_and_collide, with any time
\* delta and any paddle state, leaves the ball's position, movement
\* direction and CurveState as they were: no trajectory bend and no
\* collision is applied (the collide_once loop is not entered).
C11_PausedUnmoved ==
    (frame.n > 0 /\ frame.ball.paused) =>
        /\ pc = "idle"
        /\ frame.done
        /\ frame.hits = <<>>
        /\ ball_tf.translation = frame.ball_tf.translation
        /\ ball.movement_dir = frame.ball.movement_dir
        /\ ball.curve = frame.ball.curve
        /\ ball.paused

\* a paused ball with a level-2 curve, one 3-4-5 triangle before the corner
\* of a moving paddle, has been run for the time of a quarter-turn bend
C11_Witness ==
    /\ frame.n > 0 /\ frame.ball.paused /\ frame.done
    /\ frame.ball.curve.cfg_idx = 2
    /\ frame.dt = QuarterTurn \div 3
    /\ frame.ball.movement_dir = <<52, 39>>
    /\ frame.ball_tf.translation # <<0, 0>>
    /\ paddles["Player2"].move_dir = "Up"

----------------------------------------------------------------------------
(* Properties of the single systems (checked under SpecSys) *)

After(op) == last_call.op = op

\* the threshold of the claim, from the arena and ball sizes
OffScreenThreshold == (ARENA_WIDTH \div 2) - (BALL_SIZE \div 2)

\* C12: one run of detect_ball_off_screen writes exactly one BallOffScreen
\* message when the ball is unpaused and |x| > ARENA_WIDTH/2 - BALL_SIZE/2
\* (Right for positive x, Left for negative x) and none when the ball is
\* paused or |x| is at or below the threshold; the run leaves the ball's
\* paused flag, position, direction and curve as they were.
C12_OffScreenDetection ==
    After("detect_ball_off_screen") =>
        LET b == last_call.before.ball
            x == last_call.before.ball_tf.translation[1]
            was == last_call.before.msgs.off_screen
        IN /\ (~b.paused /\ x > OffScreenThreshold) =>
                  msgs.off_screen = Append(was, "Right")
           /\ (~b.paused /\ x < -OffScreenThreshold) =>
                  msgs.off_screen = Append(was, "Left")
           /\ (b.paused \/ (x <= OffScreenThreshold /\ x >= -OffScreenThreshold)) =>
                  msgs.off_screen = was
           /\ Len(msgs.off_screen) <= Len(was) + 1
           /\ ball = b
           /\ ball_tf = last_call.before.ball_tf

\* an unpaused ball one lattice step beyond the threshold on the left has
\* been reported
C12_Witness ==
    /\ After("detect_ball_off_screen")
    /\ ~last_call.before.ball.paused
    /\ last_call.before.ball_tf.translation[1] = -(OffScreenThreshold + LatticeStep)
    /\ msgs.off_screen = <<"Left">>

\* an unpaused ball exactly at the threshold has been looked at
C12_WitnessAtThreshold ==
    /\ After("detect_ball_off_screen")
    /\ ~last_call.before.ball.paused
    /\ last_call.before.ball_tf.translation[1] = OffScreenThreshold
    /\ msgs.off_screen = <<>>

\* C13: a run of handle_reset_ball with one or more pending ResetBall
\* messages leaves the ball paused, at x = y = 0 with z as it was, with the
\* identity rotation and the curve state (None, level 0), and consumes all
\* pending ResetBall messages; with no pending message the ball is left as
\* it was.
C13_Reset ==
    After("handle_reset_ball") =>
        IF last_call.before.msgs.reset > 0
        THEN /\ ball.paused
             /\ ball_tf.translation = <<0, 0>>
             /\ ball_tf.z = last_call.before.ball_tf.z
             /\ ball_tf.rotation = 0
             /\ ball.curve.dir = "None"
             /\ ball.curve.cfg_idx = 0
             /\ msgs.reset = 0
        ELSE /\ ball = last_call.before.ball
             /\ ball_tf = last_call.before.ball_tf

\* two pending messages have reset a moving, turned, curving ball away from
\* the centre
C13_Witness ==
    /\ After("handle_reset_ball")
    /\ last_call.before.msgs.reset = 2
    /\ ~last_call.before.ball.paused
    /\ last_call.before.ball.curve.cfg_idx = 2
    /\ last_call.before.ball_tf.rotation # 0
    /\ last_call.before.ball_tf.z = 8
    /\ last_call.before.ball_tf.translation # <<0, 0>>
    /\ ball.paused

\* the system has run without a pending message on an unpaused ball
C13_WitnessNoMessage ==
    /\ After("handle_reset_ball")
    /\ last_call.before.msgs.reset = 0
    /\ ~ball.paused
    /\ ball.curve.cfg_idx = 2

\* cos(PI / 7) = 0.90096..., as a fraction rounded down
CosStartAngle == <<90096, 100000>>

\* a unit vector within PI / 7 of straight right or straight left
NearHorizontal(d) ==
    /\ Dot(d, d) = DirNorm * DirNorm
    /\ Abs(d[1]) * CosStartAngle[2] >= CosStartAngle[1] * DirNorm

\* C14: a run of handle_start_ball with a pending StartBall message leaves
\* the ball unpaused with a unit direction within pi/7 of straight right or
\* straight left (its X component is not zero), its position and CurveState
\* as they were; with no pending message the ball is left as it was.
C14_Start ==
    After("handle_start_ball") =>
        /\ ball_tf = last_call.before.ball_tf
        /\ ball.curve = last_call.before.ball.curve
        /\ IF last_call.before.msgs.start > 0
           THEN /\ ~ball.paused
                /\ NearHorizontal(ball.movement_dir)
                /\ ball.movement_dir[1] # 0
                /\ msgs.start = 0
           ELSE ball = last_call.before.ball

\* a paused, curving ball away from the centre has been started to the left
\* and downwards
C14_Witness ==
    /\ After("handle_start_ball")
    /\ last_call.before.msgs.start > 0
    /\ last_call.before.ball.paused
    /\ ball.curve.cfg_idx = 2
    /\ ball_tf.translation # <<0, 0>>
    /\ ball.movement_dir = <<-60, -25>>

----------------------------------------------------------------------------
(* C15: in every Update frame the paddle input system runs before          *)
(* move_and_collide, and move_and_collide runs before both                 *)
(* detect_ball_off_screen and apply_curve_visuals; hence every collision   *)
(* resolved in a frame is computed against the paddle positions and move   *)
(* directions that the input system wrote in that same frame.              *)
MoveUnderWay == pc = "loop" \/ "move_and_collide" \in app.ran

C15_InputBeforeMove ==
    /\ MoveUnderWay => "handle_input_move_paddles" \in app.ran
    /\ "detect_ball_off_screen" \in app.ran => "move_and_collide" \in app.ran
    /\ "apply_curve_visuals" \in app.ran => "move_and_collide" \in app.ran
    /\ MoveUnderWay => frame.paddles = app.input /\ paddles = app.input
    /\ MoveUnderWay /\ last_call.op = "collide_once"
          => last_call.before.paddles = app.input

\* a paddle hit in a frame whose input moved that paddle
C15_Witness ==
    /\ app.n > 0
    /\ "move_and_collide" \in app.ran
    /\ "paddle" \in { frame.hits[i] : i \in DOMAIN frame.hits }
    /\ app.input # PaddlesAtSetup
    /\ \E p \in DOMAIN app.input : app.input[p].move_dir # "None"

----------------------------------------------------------------------------
----------------------------------------------------------------------------
(* C17, as stated: wall collisions, the start handler, off-screen          *)
(* detection and the per-frame curve visual update leave every field of    *)
(* CurveState unchanged.                                                   *)
CurveUntouched == ball.curve = last_call.before.ball.curve

WallHitOnly == After("collide_once") /\ last_call.result.hit = "wall"

C17_AsStated ==
    \/ WallHitOnly
    \/ After("handle_start_ball")
    \/ After("detect_ball_off_screen")
    \/ After("apply_curve_visuals")
    => CurveUntouched

(* C17, amended: the spin direction and the level of CurveState change     *)
(* only through apply_curve, which only a paddle contact and the reset     *)
(* call.  Wall collisions, the start handler, off-screen detection and the *)
(* curve bend of move_and_collide leave every field unchanged; the curve   *)
(* visual update leaves direction and level unchanged and, through         *)
(* get_color at a blinking level, advances only the blink timer and the    *)
(* colour index.                                                           *)
SpinAndLevelUntouched ==
    /\ ball.curve.dir = last_call.before.ball.curve.dir
    /\ ball.curve.cfg_idx = last_call.before.ball.curve.cfg_idx

ByApplyCurve ==
    \/ After("apply_curve")
    \/ After("handle_reset_ball")
    \/ After("collide_once") /\ last_call.result.hit \in {"paddle", "corner"}

C17_CurveWriters ==
    /\ \/ WallHitOnly
       \/ After("handle_start_ball")
       \/ After("detect_ball_off_screen")
       \/ After("move_and_collide")
       => CurveUntouched
    /\ After("apply_curve_visuals")
         => /\ SpinAndLevelUntouched
            /\ [ball.curve EXCEPT
                   !.color_timer = last_call.before.ball.curve.color_timer,
                   !.color_idx = last_call.before.ball.curve.color_idx]
                 = last_call.before.ball.curve
            /\ LevelsGet(ball.curve.cfg_idx).color.kind = "Solid" => CurveUntouched
    /\ ~After("none") => (~SpinAndLevelUntouched => ByApplyCurve)
    /\ After("handle_reset_ball") /\ last_call.before.msgs.reset > 0
         => ball.curve = ApplyCurve(last_call.before.ball.curve, "None")

\* a visual update at a blinking level that moved on to the next colour
C17_Witness ==
    /\ After("apply_curve_visuals")
    /\ LevelsGet(ball.curve.cfg_idx).color.kind = "Blinking"
    /\ ball.curve.color_idx # last_call.before.ball.curve.color_idx
    /\ ball.curve.dir # "None"

\* a wall collision of a curving ball
C17_WitnessWall == WallHitOnly /\ ball.curve.dir # "None" /\ ball.curve.cfg_idx > 0

----------------------------------------------------------------------------
(* C18: an applied wall collision leaves the curve direction and level     *)
(* unchanged; an applied paddle collision calls apply_curve exactly once   *)
(* with the spin mapped from that paddle's move direction: a stationary    *)
(* paddle gives (None, 0), the spin the ball already has gives one level   *)
(* more (up to the last), any other spin gives that spin at level 1.       *)
HitSpin == ExpectedSpin(HeadedFor(B.ball), B.paddles[HeadedFor(B.ball)].move_dir)

OneApplication ==
    CASE HitSpin = "None" -> <<"None", 0>>
      [] HitSpin # "None" /\ HitSpin = B.ball.curve.dir ->
            <<HitSpin, IF B.ball.curve.cfg_idx < Len(BALL_CURVE_LEVELS) - 1
                       THEN B.ball.curve.cfg_idx + 1 ELSE B.ball.curve.cfg_idx>>
      [] OTHER -> <<HitSpin, 1>>

C18_CurveOnCollision ==
    /\ AfterCollideOnce /\ last_call.result.hit = "wall"
         => <<ball.curve.dir, ball.curve.cfg_idx>>
              = <<B.ball.curve.dir, B.ball.curve.cfg_idx>>
    /\ AfterCollideOnce /\ last_call.result.hit \in {"paddle", "corner"}
         => <<ball.curve.dir, ball.curve.cfg_idx>> = OneApplication

\* a curving ball hit a stationary paddle
C18_Witness ==
    /\ AfterCollideOnce
    /\ last_call.result.hit = "paddle"
    /\ B.paddles[HeadedFor(B.ball)].move_dir = "None"
    /\ B.ball.curve.dir # "None" /\ B.ball.curve.cfg_idx > 0
    /\ ball.curve.dir = "None" /\ ball.curve.cfg_idx = 0

\* a curving ball hit a wall
C18_WitnessWall ==
    /\ AfterCollideOnce
    /\ last_call.result.hit = "wall"
    /\ B.ball.curve.dir # "None" /\ B.ball.curve.cfg_idx > 0

\* the spin the ball already had was applied again
C18_WitnessStronger ==
    /\ AfterCollideOnce
    /\ last_call.result.hit = "paddle"
    /\ HitSpin = B.ball.curve.dir /\ HitSpin # "None"
    /\ ball.curve.cfg_idx = B.ball.curve.cfg_idx + 1

----------------------------------------------------------------------------
(* C19, as stated: from_query for a side with zero matching paddle         *)
(* entities, or with more than one, panics instead of returning a hitbox.  *)
Matching == { i \in DOMAIN last_call.arg.query :
                 last_call.arg.query[i].player = last_call.arg.player }

C19_WitnessNone ==
    /\ After("from_query")
    /\ Len(last_call.arg.query) = 1 /\ Matching = {}
    /\ panicked

----------------------------------------------------------------------------
(* C20, as stated: plane_origin is the transform position offset toward    *)
(* the arena centre by half the paddle's thickness (scale.x / 2), +X for   *)
(* Player1 and -X for Player2, with Y inside [bot_y, top_y].               *)
Returned == After("from_query") /\ last_call.result.hitbox.some
Hitbox == last_call.result.hitbox.val
Inward == IF Hitbox.player = "Player1" THEN 1 ELSE -1

C20_AsStated ==
    Returned =>
        /\ last_call.result.plane_origin[1]
              = Hitbox.tf.translation[1] + Inward * (Hitbox.tf.scale[1] \div 2)
        /\ last_call.result.plane_origin[2] >= last_call.result.bot_y
        /\ last_call.result.plane_origin[2] <= last_call.result.top_y

(* C20, amended: plane_origin is the transform position offset toward the  *)
(* arena centre by the paddle's whole thickness (scale.x), +X for Player1  *)
(* and -X for Player2; its Y coordinate is the transform's Y, which lies   *)
(* inside [bot_y, top_y].                                                  *)
C20_PlaneOrigin ==
    Returned =>
        /\ last_call.result.plane_origin[1]
              = Hitbox.tf.translation[1] + Inward * Hitbox.tf.scale[1]
        /\ last_call.result.plane_origin[2] = Hitbox.tf.translation[2]
        /\ last_call.result.plane_origin[2] >= last_call.result.bot_y
        /\ last_call.result.plane_origin[2] <= last_call.result.top_y

\* the Player1 paddle of test_hitbox_api: plane at x = -5 + PADDLE_WIDTH
C20_Witness ==
    /\ Returned
    /\ Hitbox.player = "Player1"
    /\ Hitbox.tf.translation = <<-5 * WorldUnit, 8 * WorldUnit>>
    /\ last_call.result.plane_origin = <<-5 * WorldUnit + PADDLE_WIDTH, 8 * WorldUnit>>

\* the Player2 paddle of test_hitbox_api: plane at x = 10 - PADDLE_WIDTH
C20_WitnessPlayer2 ==
    /\ Returned
    /\ Hitbox.player = "Player2"
    /\ last_call.result.plane_origin = <<10 * WorldUnit - PADDLE_WIDTH, 3 * WorldUnit>>

----------------------------------------------------------------------------
(* C21, as stated: a ball heading (4, 3) normalised that hits a flat,      *)
(* non-moving right paddle 5 units away in a frame of 1.5 times that       *)
(* distance ends with direction (4, -3) normalised (Y flipped, X           *)
(* unchanged), half the pre-collision distance away from the impact.       *)
RightPaddleFrame ==
    /\ frame.n > 0 /\ frame.done
    /\ frame.dt = (3 * FiveUnits) \div 2
    /\ ~frame.ball.paused
    /\ frame.ball.movement_dir = <<52, 39>>
    /\ frame.ball.curve.dir = "None"
    /\ frame.ball_tf.translation[1] = HitPlaneX - 4 * WorldUnit
    /\ frame.paddles["Player2"].move_dir = "None"
    /\ frame.hits = <<"paddle">>

ImpactPoint ==
    <<frame.ball_tf.translation[1] + 4 * WorldUnit,
      frame.ball_tf.translation[2] + 3 * WorldUnit>>

C21_AsStated ==
    RightPaddleFrame =>
        /\ ball.movement_dir = <<52, -39>>
        /\ Abs(ball_tf.translation[1] - ImpactPoint[1]) = 2 * WorldUnit
        /\ Abs(ball_tf.translation[2] - ImpactPoint[2]) = (3 * WorldUnit) \div 2

(* C21, amended: that ball ends with direction (-4, 3) normalised - the X  *)
(* component sign flips and the Y component is unchanged - at the          *)
(* mirror-image point half the pre-collision distance past the impact:     *)
(* 2 units back in X and 1.5 units further in Y.                           *)
C21_RightPaddleBounce ==
    RightPaddleFrame =>
        /\ ball.movement_dir = <<-52, 39>>
        /\ ball_tf.translation = <<ImpactPoint[1] - 2 * WorldUnit,
                                   ImpactPoint[2] + (3 * WorldUnit) \div 2>>
        /\ ball.curve = frame.ball.curve

\* the frame of test_move_collide_right, on a centred paddle
C21_Witness ==
    /\ RightPaddleFrame
    /\ frame.paddles["Player2"].y = 0
    /\ ImpactPoint[1] = HitPlaneX
    /\ ball.movement_dir = <<-52, 39>>

----------------------------------------------------------------------------
(* C22: the movement direction stays a unit vector through any number of   *)
(* successive reflections (and curve bends): a wall reflection negates     *)
(* exactly the Y component, a paddle reflection exactly the X component,   *)
(* a corner both, and the magnitude of each component is preserved.        *)
IsUnit(d) == Dot(d, d) = DirNorm * DirNorm

C22_UnitDirection ==
    /\ IsUnit(ball.movement_dir)
    /\ AfterCollideOnce /\ last_call.result.hit = "wall"
         => ball.movement_dir = <<B.ball.movement_dir[1], -B.ball.movement_dir[2]>>
    /\ AfterCollideOnce /\ last_call.result.hit = "paddle"
         => ball.movement_dir = <<-B.ball.movement_dir[1], B.ball.movement_dir[2]>>
    /\ AfterCollideOnce /\ last_call.result.hit = "corner"
         => ball.movement_dir = <<-B.ball.movement_dir[1], -B.ball.movement_dir[2]>>
    /\ AfterCollideOnce /\ last_call.result.hit = "none"
         => ball.movement_dir = B.ball.movement_dir

\* a frame with two successive reflections, one off a wall and one off a
\* paddle, of a direction with two non-zero components
C22_Witness ==
    /\ frame.n > 0 /\ frame.done
    /\ Len(frame.hits) >= 2
    /\ "wall" \in { frame.hits[i] : i \in DOMAIN frame.hits }
    /\ "paddle" \in { frame.hits[i] : i \in DOMAIN frame.hits }
    /\ ball.movement_dir[1] # 0 /\ ball.movement_dir[2] # 0
    /\ IsUnit(ball.movement_dir)

----------------------------------------------------------------------------
(* C23: apply_curve re-initialises the blink animation exactly when the    *)
(* (direction, level) pair changed: on a change to a blinking level the    *)
(* timer is a new repeating timer of the blink period and color_idx is 0,  *)
(* on a change to a solid level the timer is paused; without a change, as  *)
(* when the same direction is applied at level 3, color_idx and the blink  *)
(* timer stay exactly as they were.                                        *)
CurveBefore == last_call.before.ball.curve

PairChanged ==
    <<ball.curve.dir, ball.curve.cfg_idx>> # <<CurveBefore.dir, CurveBefore.cfg_idx>>

NowBlinking == ball.curve.cfg_idx = 3

C23_BlinkReinit ==
    After("apply_curve") =>
        /\ PairChanged /\ NowBlinking
             => /\ ball.curve.color_timer
                     = [duration |-> (230 * TicksPerSec) \div 1000,
                        repeating |-> TRUE, elapsed |-> 0, paused |-> FALSE,
                        finished |-> FALSE, times_finished_this_tick |-> 0]
                /\ ball.curve.color_idx = 0
        /\ PairChanged /\ ~NowBlinking
             => /\ ball.curve.color_timer.paused
                /\ [ball.curve.color_timer EXCEPT !.paused = CurveBefore.color_timer.paused]
                     = CurveBefore.color_timer
                /\ ball.curve.color_idx = CurveBefore.color_idx
        /\ ~PairChanged
             => /\ ball.curve.color_timer = CurveBefore.color_timer
                /\ ball.curve.color_idx = CurveBefore.color_idx

\* the same direction applied at level 3 in the middle of the animation
C23_Witness ==
    /\ After("apply_curve")
    /\ ~PairChanged
    /\ ball.curve.cfg_idx = 3
    /\ last_call.arg = ball.curve.dir
    /\ ball.curve.color_idx = 1
    /\ ball.curve.color_timer.elapsed > 0
    /\ ball.curve.color_timer.repeating

\* test_apply_curve_cap: color_idx 2 is kept
C23_WitnessCapTest ==
    /\ After("apply_curve") /\ Len(calls) = 1
    /\ ~PairChanged /\ ball.curve.cfg_idx = 3 /\ ball.curve.color_idx = 2

\* a running animation stopped by leaving level 3
C23_WitnessStopped ==
    /\ After("apply_curve") /\ PairChanged /\ ~NowBlinking
    /\ CurveBefore.cfg_idx = 3 /\ ~CurveBefore.color_timer.paused
    /\ CurveBefore.color_timer.elapsed > 0

----------------------------------------------------------------------------
(* C24: at a blinking level, a get_color(time_delta) call during which the *)
(* blink timer completes k periods (k >= 0, possibly more than 1) moves    *)
(* color_idx on by k modulo the length of the colour sequence and returns  *)
(* the colour at the new index, which is a valid index; right after the    *)
(* blinking level is entered, get_color(0) returns the first colour.       *)
BlinkColors == <<Green, Yellow>>
BlinkPeriod == (230 * TicksPerSec) \div 1000

\* the periods a running repeating blink timer completes during the call
PeriodsCompleted == (CurveBefore.color_timer.elapsed + last_call.arg) \div BlinkPeriod

BlinkTimerRunning ==
    /\ CurveBefore.color_timer.repeating
    /\ ~CurveBefore.color_timer.paused
    /\ CurveBefore.color_timer.duration = BlinkPeriod

JustEntered ==
    /\ BlinkTimerRunning
    /\ CurveBefore.color_timer.elapsed = 0
    /\ CurveBefore.color_timer.times_finished_this_tick = 0
    /\ CurveBefore.color_idx = 0

C24_BlinkAdvance ==
    After("get_color") /\ CurveBefore.cfg_idx = 3 =>
        /\ ball.curve.color_idx \in 0..(Len(BlinkColors) - 1)
        /\ last_call.result.color = BlinkColors[ball.curve.color_idx + 1]
        /\ ball.curve.color_idx
              = (CurveBefore.color_idx + ball.curve.color_timer.times_finished_this_tick)
                    % Len(BlinkColors)
        /\ BlinkTimerRunning
             => /\ ball.curve.color_timer.times_finished_this_tick = PeriodsCompleted
                /\ ball.curve.color_idx
                     = (CurveBefore.color_idx + PeriodsCompleted) % Len(BlinkColors)
        /\ JustEntered /\ last_call.arg = 0 => last_call.result.color = BlinkColors[1]
        /\ <<ball.curve.dir, ball.curve.cfg_idx>> = <<CurveBefore.dir, CurveBefore.cfg_idx>>

\* three periods completed in one call: the index moved from 0 to 1
C24_Witness ==
    /\ After("get_color") /\ CurveBefore.cfg_idx = 3
    /\ BlinkTimerRunning
    /\ PeriodsCompleted = 3
    /\ CurveBefore.color_idx = 0
    /\ ball.curve.color_idx = 1
    /\ last_call.result.color = Yellow

\* two periods completed in one call: the index is where it was
C24_WitnessTwo ==
    /\ After("get_color") /\ CurveBefore.cfg_idx = 3
    /\ BlinkTimerRunning
    /\ PeriodsCompleted = 2
    /\ ball.curve.color_idx = CurveBefore.color_idx

\* get_color(Duration::ZERO) right after level 3 was entered
C24_WitnessEntered ==
    /\ After("get_color") /\ CurveBefore.cfg_idx = 3
    /\ JustEntered /\ last_call.arg = 0
    /\ last_call.result.color = Green

----------------------------------------------------------------------------
(* C25: with no curve active and static paddles, a frame of duration t1    *)
(* followed by a frame of duration t2 leaves the ball at the position and  *)
(* with the direction of a single frame of duration t1 + t2, also when the *)
(* budget of the first frame ends exactly at a collision point (the        *)
(* collision is applied once, in the first frame).                         *)
SecondDeltas == { FiveUnits \div 2, FiveUnits, (3 * FiveUnits) \div 2 }

StaticNoCurve ==
    /\ frame.n = 1 /\ frame.done
    /\ ~frame.ball.paused
    /\ frame.ball.curve.dir = "None"
    /\ \A p \in PlayerId : frame.paddles[p].move_dir = "None"

Budget(dt) == dt * (BALL_SPEED \div TicksPerSec)

\* the state machine's frame is the frame the function computes
FrameAsComputed ==
    frame.n > 0 /\ frame.done /\ ~frame.ball.paused
        => [ball |-> ball, ball_tf |-> ball_tf]
             = MoveAndCollideOf(frame.ball, frame.ball_tf, frame.paddles, frame.dt)

SplitAgrees(t2) ==
    ExactRun(Budget(frame.dt + t2), frame.ball, frame.ball_tf, frame.paddles)
        /\ ExactRun(Budget(t2), ball, ball_tf, paddles)
    => MoveAndCollideOf(ball, ball_tf, paddles, t2)
         = MoveAndCollideOf(frame.ball, frame.ball_tf, frame.paddles, frame.dt + t2)

C25_FramesCompose ==
    /\ FrameAsComputed
    /\ StaticNoCurve => \A t2 \in SecondDeltas : SplitAgrees(t2)

\* test_move_collide_right_with_time_stop: the first frame ended exactly at
\* the paddle, the collision was applied in it, and the second frame of half
\* that time ends where the single frame ends
C25_Witness ==
    /\ StaticNoCurve
    /\ frame.dt = FiveUnits
    /\ frame.ball.movement_dir = <<52, 39>>
    /\ frame.hits = <<"paddle">>
    /\ ball_tf.translation[1] = HitPlaneX
    /\ ball.movement_dir = <<-52, 39>>
    /\ ExactRun(Budget(frame.dt + FiveUnits \div 2), frame.ball, frame.ball_tf,
                frame.paddles)
    /\ ExactRun(Budget(FiveUnits \div 2), ball, ball_tf, paddles)
    /\ MoveAndCollideOf(ball, ball_tf, paddles, FiveUnits \div 2).ball_tf.translation
         = <<HitPlaneX - 2 * WorldUnit,
             frame.ball_tf.translation[2] + 3 * WorldUnit + (3 * WorldUnit) \div 2>>

----------------------------------------------------------------------------
(* C26: for an unpaused ball move_and_collide first rotates the travel     *)
(* direction by the curve's trajectory delta of the frame (negative for    *)
(* Clockwise, positive for CounterClockwise, zero for None) and only then  *)
(* resolves the budget: a direction turned ahead by exactly the angle of   *)
(* the frame, with Clockwise spin, moves the ball straight along +X for    *)
(* the whole frame.                                                        *)
BendRate == <<0, 1, 3, 6>>     \* curve speed of levels 0..3, in pi/10 rad/s

\* the trajectory delta of the frame, in quarter turns to the left
QuarterTurnsLeft ==
    LET angle == BendRate[frame.ball.curve.cfg_idx + 1] * frame.dt IN
    CASE frame.ball.curve.dir = "Clockwise" -> -(angle \div QuarterTurn)
      [] frame.ball.curve.dir = "CounterClockwise" -> angle \div QuarterTurn
      [] OTHER -> 0

RECURSIVE TurnedLeft(_, _)
TurnedLeft(v, k) ==
    IF k = 0 THEN v
    ELSE IF k > 0 THEN TurnedLeft(<<-v[2], v[1]>>, k - 1)
    ELSE TurnedLeft(<<v[2], -v[1]>>, k + 1)

FrameBegun == frame.n > 0 /\ ~frame.ball.paused

C26_WitnessLeft ==
    /\ FrameBegun
    /\ frame.ball.curve.dir = "CounterClockwise"
    /\ frame.ball.movement_dir = <<0, -DirNorm>>
    /\ frame.dir = <<DirNorm, 0>>

----------------------------------------------------------------------------
(* C27: the collision loop of move_and_collide terminates: every applied   *)
(* collision takes a strictly positive distance from the budget, which     *)
(* never becomes negative; the loop is left as soon as no surface is       *)
(* within the remaining budget, and the ball is then advanced by that      *)
(* remaining budget.                                                       *)
LoopStep ==
    /\ AfterCollideOnce /\ last_call.result.ret.some
         => /\ last_call.result.ret.val > 0
            /\ last_call.result.ret.val <= B.move_dist
            /\ move_dist = B.move_dist - last_call.result.ret.val
            /\ move_dist >= 0
            /\ pc = "loop"
    /\ AfterCollideOnce /\ ~last_call.result.ret.some
         => /\ pc = "idle"
            /\ frame.done
            /\ ~ReachesWall(B.ball, B.ball_tf, B.move_dist)
            /\ ~PaddleHit(B.paddles, B.ball, B.ball_tf, B.move_dist)
            /\ ball.movement_dir = B.ball.movement_dir
            /\ DirNorm * (ball_tf.translation[1] - B.ball_tf.translation[1])
                  = B.ball.movement_dir[1] * B.move_dist
            /\ DirNorm * (ball_tf.translation[2] - B.ball_tf.translation[2])
                  = B.ball.movement_dir[2] * B.move_dist
    /\ pc = "loop" => ~panicked

C27_LoopTerminates == []LoopStep /\ ((pc = "loop") ~> (pc = "idle"))

\* a loop that applied two collisions and then ended
C27_Witness ==
    /\ frame.n > 0 /\ frame.done
    /\ Len(frame.hits) >= 2
    /\ pc = "idle"
    /\ AfterCollideOnce /\ ~last_call.result.ret.some

----------------------------------------------------------------------------
(* Properties of update_round_timer (checked under SpecLib) *)

\* the step is one run of the system op
RunOf(op) == last_call'.op = op /\ vars' # vars

\* the one-shot round timer finished during the step
FinishedInRun == ~res.round_timer.finished /\ res'.round_timer.finished

\* the messages other than those named
OtherMsgs(m, names) == [f \in (DOMAIN m) \ names |-> m[f]]

\* C28: one run of update_round_timer writes a StartBall exactly if the
\* round timer finished during that run; it writes a ClearScores exactly if
\* the timer finished and IsBetweenGames was true, and IsBetweenGames is then
\* false; if the timer did not finish, no message is written and
\* IsBetweenGames is unchanged
C28_RoundTimer ==
    [][RunOf("update_round_timer") =>
          /\ msgs'.start = msgs.start + (IF FinishedInRun THEN 1 ELSE 0)
          /\ msgs'.clear_scores =
                 msgs.clear_scores
                     + (IF FinishedInRun /\ res.between_games THEN 1 ELSE 0)
          /\ OtherMsgs(msgs', {"start", "clear_scores"})
                 = OtherMsgs(msgs, {"start", "clear_scores"})
          /\ FinishedInRun => ~res'.between_games
          /\ ~FinishedInRun => res'.between_games = res.between_games]_vars

\* test_update_timer_sys_between_w_trigger: the timer has just finished
\* between games, both messages are there and IsBetweenGames is false
C28_Witness ==
    /\ last_call.op = "update_round_timer"
    /\ JustFinished(res.round_timer)
    /\ msgs.start = 1 /\ msgs.clear_scores = 1
    /\ ~res.between_games

\* test_update_timer_sys_between_no_trigger
C28_WitnessNoTrigger ==
    /\ last_call.op = "update_round_timer"
    /\ ~res.round_timer.finished
    /\ msgs.start = 0 /\ msgs.clear_scores = 0
    /\ res.between_games

----------------------------------------------------------------------------
(* Properties of handle_ball_off_screen (checked under SpecLib) *)

\* Timer::from_seconds(1, TimerMode::Once), not ticked yet
IsFreshOneSecond(t) ==
    /\ t.duration = TicksPerSec /\ ~t.repeating
    /\ t.elapsed = 0 /\ ~t.finished /\ ~t.paused

\* C29: one run of handle_ball_off_screen with at least one pending
\* BallOffScreen writes exactly one PlayerScored, for the first message only
\* (Left: Player2, Right: Player1), writes a ResetBall, restarts the round
\* timer as a one-shot timer of one second and discards the other messages;
\* with none pending it writes nothing and leaves the round timer as it was
C29_BallOffScreen ==
    [][RunOf("handle_ball_off_screen") =>
          IF Len(msgs.off_screen) >= 1
          THEN /\ msgs'.scored =
                     Append(msgs.scored,
                            IF msgs.off_screen[1] = "Left" THEN "Player2"
                            ELSE "Player1")
               /\ msgs'.reset = msgs.reset + 1
               /\ msgs'.off_screen = <<>>
               /\ OtherMsgs(msgs', {"scored", "reset", "off_screen"})
                      = OtherMsgs(msgs, {"scored", "reset", "off_screen"})
               /\ IsFreshOneSecond(res'.round_timer)
               /\ res'.between_games = res.between_games
          ELSE msgs' = msgs /\ res' = res]_vars

\* test_ball_off_screen_multi: Right, Right, Left were pending and Player1
\* alone has scored
C29_Witness ==
    /\ last_call.op = "handle_ball_off_screen"
    /\ last_call.before.msgs.off_screen = <<"Right", "Right", "Left">>
    /\ msgs.scored = <<"Player1">>
    /\ msgs.off_screen = <<>>
    /\ IsFreshOneSecond(res.round_timer)

\* test_ball_off_screen_no_input
C29_WitnessNoInput ==
    /\ last_call.op = "handle_ball_off_screen"
    /\ last_call.before.msgs.off_screen = <<>>
    /\ msgs.scored = <<>> /\ msgs.reset = 0
    /\ res.round_timer = TimerDefault

----------------------------------------------------------------------------
(* Properties of handle_player_score (checked under SpecScore) *)

ScoreOf(score, player) == IF player = "Player1" THEN score.p1 ELSE score.p2

\* how many of the first k messages name the player
ScoredBy(events, k, player) ==
    Cardinality({ i \in 1..k : events[i] = player })

\* the scores after the first k pending messages of the step have been added
ScoresAfter(k) ==
    [p \in PlayerId |-> ScoreOf(res.score, p) + ScoredBy(msgs.scored, k, p)]

\* the number of PlayerScored messages the step has processed; what it left
\* unread is the rest of the pending ones
Processed == Len(msgs.scored) - Len(msgs'.scored)

\* the number of MaxScoreReached messages the step has written
Emitted == msgs'.max_score - msgs.max_score

\* the player's score was below WINNING_SCORE and the step has brought it there
Reaches(player) ==
    /\ ScoreOf(res.score, player) < WINNING_SCORE
    /\ ScoreOf(res'.score, player) >= WINNING_SCORE

\* some score is at least WINNING_SCORE after the first k messages
WinAfter(k) == \E p \in PlayerId : ScoresAfter(k)[p] >= WINNING_SCORE

\* what the step does apart from the win: one point per processed message
\* for its scorer, shown in the score text; a run with pending messages
\* processes at least one, goes on while no win is detected after a message
\* and stops at the first one after which a win is detected; at most one
\* MaxScoreReached; nothing else changes; with no message nothing changes
CountsAndStops ==
    IF msgs.scored = <<>>
    THEN msgs' = msgs /\ res' = res
    ELSE /\ Processed \in 1..Len(msgs.scored)
         /\ msgs'.scored = SubSeq(msgs.scored, Processed + 1, Len(msgs.scored))
         /\ \A p \in PlayerId :
               /\ ScoreOf(res'.score, p) = ScoresAfter(Processed)[p]
               /\ ScoredBy(msgs.scored, Processed, p) > 0
                     => res'.score_texts[p]
                           = ScoreToString(ScoreOf(res'.score, p))
               /\ ScoredBy(msgs.scored, Processed, p) = 0
                     => res'.score_texts[p] = res.score_texts[p]
         /\ Emitted \in {0, 1}
         /\ \A k \in 1..(Processed - 1) : ~WinAfter(k)
         /\ Processed < Len(msgs.scored) => Emitted = 1
         /\ OtherMsgs(msgs', {"scored", "max_score"})
               = OtherMsgs(msgs, {"scored", "max_score"})
         /\ res'.round_timer = res.round_timer
         /\ res'.between_games = res.between_games

\* the claim as it was stated: MaxScoreReached and the visible win text
\* exactly when a score reaches WINNING_SCORE
C30_AsStated ==
    [][RunOf("handle_player_score") =>
          /\ CountsAndStops
          /\ (Emitted = 1) <=> (\E p \in PlayerId : Reaches(p))
          /\ \A p \in PlayerId :
                (res'.win_texts[p] = "Visible")
                    <=> (res.win_texts[p] = "Visible" \/ Reaches(p))]_vars

\* C30: handle_player_score adds exactly one to the scorer's score for each
\* PlayerScored it processes and leaves the other score alone; it writes
\* MaxScoreReached and makes a win text visible exactly when, after a
\* processed message, a score is at least WINNING_SCORE (Player1's text if
\* Player1's score is, otherwise Player2's); it writes at most one
\* MaxScoreReached per run and processes no further message of that run once
\* a win is detected; with no pending message nothing changes
C30_PlayerScore ==
    [][RunOf("handle_player_score") =>
          /\ CountsAndStops
          /\ msgs.scored # <<>> =>
                /\ (Emitted = 1) <=> WinAfter(Processed)
                /\ \A p \in PlayerId :
                      (res'.win_texts[p] = "Visible")
                          <=> \/ res.win_texts[p] = "Visible"
                              \/ /\ WinAfter(Processed)
                                 /\ p = IF ScoresAfter(Processed).Player1
                                               >= WINNING_SCORE
                                        THEN "Player1" ELSE "Player2"]_vars

\* Player1 has won with the first of several pending messages: the others are
\* still unread
C30_Witness ==
    /\ last_call.op = "handle_player_score"
    /\ Len(last_call.before.msgs.scored) >= 2
    /\ msgs.scored # <<>>
    /\ msgs.max_score = 1
    /\ res.score.p1 = WINNING_SCORE
    /\ res.win_texts = [Player1 |-> "Visible", Player2 |-> "Hidden"]

\* a run that processed a message while a player had already won
C30_WitnessAgain ==
    /\ last_call.op = "handle_player_score"
    /\ last_call.before.msgs.max_score = 1
    /\ msgs.max_score = 2

\* test_handle_player_score_system: a point that wins nothing
C30_WitnessPoint ==
    /\ last_call.op = "handle_player_score"
    /\ res.score = [p1 |-> 1, p2 |-> 0]
    /\ res.score_texts = [Player1 |-> <<1>>, Player2 |-> <<0>>]
    /\ msgs.max_score = 0

----------------------------------------------------------------------------
(* Properties of handle_input_move_paddles (checked under SpecPaddle) *)

\* the keys of a player: <<up, down>>
KeysOf(player) ==
    IF player = "Player1" THEN <<"KeyW", "KeyS">> ELSE <<"ArrowUp", "ArrowDown">>

\* only the up key, or only the down key, of the player was pressed in the
\* last run
UpOnly(player) ==
    KeysOf(player)[1] \in app.keys /\ KeysOf(player)[2] \notin app.keys
DownOnly(player) ==
    KeysOf(player)[2] \in app.keys /\ KeysOf(player)[1] \notin app.keys

\* the distance of the last run, and the paddle before it
RunDistance == app.delta * (PADDLE_MOVE_SPEED \div TicksPerSec)
PaddleBefore(player) == last_call.before.paddles[player]

\* C31: after any number of handle_input_move_paddles runs, with any keys and
\* any time delta, each paddle's Y is within [-PADDLE_CLAMP_Y, PADDLE_CLAMP_Y];
\* a step that would overshoot a clamp lands exactly on it
C31_PaddleClamped ==
    \A p \in PlayerId :
       /\ paddles[p].y <= PADDLE_CLAMP_Y
       /\ paddles[p].y >= -PADDLE_CLAMP_Y
       /\ After("handle_input_move_paddles") =>
             /\ (UpOnly(p) /\ PaddleBefore(p).y + RunDistance > PADDLE_CLAMP_Y)
                   => paddles[p].y = PADDLE_CLAMP_Y
             /\ (DownOnly(p) /\ PaddleBefore(p).y - RunDistance < -PADDLE_CLAMP_Y)
                   => paddles[p].y = -PADDLE_CLAMP_Y

\* test_handle_input_hitting_positive_cap: five seconds upwards from the
\* centre end on the clamp
C31_Witness ==
    /\ After("handle_input_move_paddles")
    /\ app.delta = 5 * TicksPerSec
    /\ UpOnly("Player1")
    /\ PaddleBefore("Player1").y = 0
    /\ paddles["Player1"].y = PADDLE_CLAMP_Y

\* a step downwards that overshoots the lower clamp
C31_WitnessDown ==
    /\ After("handle_input_move_paddles")
    /\ DownOnly("Player2")
    /\ PaddleBefore("Player2").y - RunDistance < -PADDLE_CLAMP_Y
    /\ PaddleBefore("Player2").y > -PADDLE_CLAMP_Y
    /\ paddles["Player2"].y = -PADDLE_CLAMP_Y

\* C32: after each handle_input_move_paddles run a paddle's move direction is
\* None exactly when the paddle was stationary during that update, Up exactly
\* when it moved toward positive Y and Down exactly when it moved toward
\* negative Y; a paddle that reaches the clamp during the update reports
\* Up or Down
C32_MoveDirection ==
    After("handle_input_move_paddles") =>
       \A p \in PlayerId :
          /\ (paddles[p].move_dir = "None") <=> (paddles[p].y = PaddleBefore(p).y)
          /\ (paddles[p].move_dir = "Up") <=> (paddles[p].y > PaddleBefore(p).y)
          /\ (paddles[p].move_dir = "Down") <=> (paddles[p].y < PaddleBefore(p).y)

\* what the code records: the direction of the key pressed alone, unless the
\* paddle was at the clamp of that direction before the run
C32_AsCoded ==
    After("handle_input_move_paddles") =>
       \A p \in PlayerId :
          paddles[p].move_dir =
             IF UpOnly(p) /\ PaddleBefore(p).y < PADDLE_CLAMP_Y THEN "Up"
             ELSE IF DownOnly(p) /\ PaddleBefore(p).y > -PADDLE_CLAMP_Y THEN "Down"
             ELSE "None"

\* a run with a time delta of zero: the paddle has not moved and reports Up
C32_ZeroDelta ==
    /\ After("handle_input_move_paddles")
    /\ app.delta = 0
    /\ paddles["Player1"].y = PaddleBefore("Player1").y
    /\ paddles["Player1"].move_dir = "Up"

----------------------------------------------------------------------------
(* Properties of the font size plugin (checked under SpecFont) *)

\* the step has written the sizing of a text entity
TextResized == res'.font.fonts # res.font.fonts

\* the debounce timer has just finished in the tick of the step
TimerFires == JustFinished(res'.font.timer)

\* text is resized only by handle_font_resize in a run in which the timer
\* has just finished, and a run of handle_window_resize with a WindowResized
\* message restarts the timer at the full debounce duration
ResizeGated ==
    /\ TextResized => RunOf("handle_font_resize") /\ TimerFires
    /\ (RunOf("handle_window_resize") /\ msgs.window_resized > 0)
          => res'.font.timer = TimerNew(res.font.duration, FALSE)

\* once the window has been resized, text is resized only after the full
\* debounce duration has elapsed since the latest resize
ResizeDebounced ==
    (TextResized /\ app.since >= 0) => app.since >= res.font.duration

\* C33: text is resized only in a frame in which the debounce timer has just
\* finished, every frame with a WindowResized message restarts the timer at
\* the full debounce duration, and so no text is resized until a full debounce
\* duration has elapsed since the latest window resize, in whatever order the
\* two systems run within a frame
C33_Debounce == [][ResizeGated /\ ResizeDebounced]_vars

\* the first two parts alone
C33_Gated == [][ResizeGated]_vars

\* the debounce holds in the frames in which handle_window_resize has run
\* before handle_font_resize
C33_WindowFirst ==
    [][("handle_window_resize" \in app.ran) => ResizeDebounced]_vars

\* text has been resized in a frame that began with a WindowResized message,
\* half a debounce duration after it
C33_ResizedTooEarly ==
    /\ After("handle_font_resize")
    /\ JustFinished(res.font.timer)
    /\ app.since = DEFAULT_DEBOUNCE_DURATION \div 2
    /\ msgs.window_resized > 0
    /\ res.font.fonts.txt1.font_size # DefaultFontSize

\* the sizing the system computes for a text entity
CanResize(font, txt) ==
    /\ IsOrthographic(font, font.fonts[txt].render_camera)
    /\ font.cams[font.fonts[txt].render_camera].height > 0
    /\ font.window_height > 0
SizedText(font, txt) ==
    [font.fonts[txt] EXCEPT
        !.font_size = Ratio(font.fonts[txt].height_in_world * font.window_height,
                            font.cams[font.fonts[txt].render_camera].height),
        !.scale = Ratio(font.cams[font.fonts[txt].render_camera].height,
                        font.window_height)]

\* C34: when the debounce timer fires, a text entity whose render camera is
\* invalid or not orthographic is left as it is, and every other entity with
\* an orthographic camera and non-zero camera and window heights is resized,
\* in whatever order the entities are visited
C34_EachEntity ==
    [][(RunOf("handle_font_resize") /\ TimerFires) =>
          \A txt \in DOMAIN res.font.fonts :
             res'.font.fonts[txt] =
                IF CanResize(res.font, txt) THEN SizedText(res.font, txt)
                ELSE res.font.fonts[txt]]_vars

\* the position of an entity in the order of the query
PlaceOf(font, txt) == CHOOSE i \in 1..Len(font.order) : font.order[i] = txt

\* an entity the query yields before txt has no orthographic camera
StoppedBefore(font, txt) ==
    \E i \in 1..PlaceOf(font, txt) :
       ~IsOrthographic(font, font.fonts[font.order[i]].render_camera)

\* what the code does: the entities the query yields before the first one
\* without an orthographic camera are resized, the others are left
C34_UpToFirstInvalid ==
    [][(RunOf("handle_font_resize") /\ TimerFires) =>
          \A txt \in DOMAIN res.font.fonts :
             res'.font.fonts[txt] =
                IF CanResize(res.font, txt) /\ ~StoppedBefore(res.font, txt)
                THEN SizedText(res.font, txt)
                ELSE res.font.fonts[txt]]_vars

\* the timer has fired, txt1 is resized and txt2, which the query yields after
\* txt3, is not
C34_Skipped ==
    /\ After("handle_font_resize")
    /\ JustFinished(res.font.timer)
    /\ res.font.window_height > 0
    /\ res.font.fonts.txt1.font_size # DefaultFontSize
    /\ res.font.fonts.txt2.font_size = DefaultFontSize

\* test_handle_font_resize_system: the query yields txt1 and txt2 first and
\* both are resized
C34_TestOrder ==
    /\ After("handle_font_resize")
    /\ res.font.order = <<"txt1", "txt2", "txt3", "txt4">>
    /\ res.font.window_height = 200
    /\ res.font.fonts.txt1.font_size = Ratio(40, 1)
    /\ res.font.fonts.txt2.font_size = Ratio(300, 1)
    /\ res.font.fonts.txt2.scale = Ratio(1, 10)
    /\ res.font.fonts.txt3.font_size = DefaultFontSize

----------------------------------------------------------------------------
(* Further properties of CurveState (checked under SpecCurve) *)

\* C35: in every CurveState reached from the default one by apply_curve
\* calls, the level is 0 exactly when the direction is None
C35_LevelZeroIffNone ==
    (ball.curve.cfg_idx = 0) <=> (ball.curve.dir = "None")

\* a curve of level 2 has been taken back to None
C35_Witness ==
    /\ Len(calls) >= 3
    /\ last_call.op = "apply_curve"
    /\ last_call.arg = "None"
    /\ last_call.before.ball.curve.cfg_idx = 2
    /\ ball.curve.dir = "None"
    /\ ball.curve.cfg_idx = 0

\* a first curve has been applied to the default state
C35_WitnessCurved ==
    /\ calls = <<"CounterClockwise">>
    /\ ball.curve.dir = "CounterClockwise"
    /\ ball.curve.cfg_idx = 1

----------------------------------------------------------------------------
(* Properties of the ball's systems from startup (checked under SpecBall) *)

\* C36: in every state reached from startup through frames of the ball's
\* systems, a paused ball has the curve (None, level 0); so the visuals never
\* rotate a paused ball, and its rotation stays the identity
C36_PausedNoCurve ==
    /\ ball.paused =>
          /\ ball.curve.dir = "None"
          /\ ball.curve.cfg_idx = 0
          /\ ball_tf.rotation = 0
    /\ (After("apply_curve_visuals") /\ last_call.before.ball.paused)
          => ball_tf.rotation = last_call.before.ball_tf.rotation

\* a curving, turned ball has been reset
C36_Witness ==
    /\ After("handle_reset_ball")
    /\ last_call.before.ball.curve.dir # "None"
    /\ last_call.before.ball_tf.rotation # 0
    /\ ~last_call.before.ball.paused
    /\ ball.paused

\* the visuals have run on a paused ball in the last frame
C36_WitnessVisuals ==
    /\ After("apply_curve_visuals")
    /\ last_call.before.ball.paused
    /\ last_call.dt = BallDelta
    /\ app.n = MaxUpdates

----------------------------------------------------------------------------
(* The walls (checked under SpecWall) *)

\* the ball's centre is between the wall planes, or on one of them
WithinWalls(tf) == Abs(tf.translation[2]) <= WallPlaneY

\* C37: a ball whose Y starts within the wall planes
\* [-(ARENA_HEIGHT/2 - r), ARENA_HEIGHT/2 - r] is still within them after any
\* sequence of move_and_collide frames with any time deltas, paddles and
\* curves: the ball never leaves through the top or bottom wall
C37_WithinWalls == WithinWalls(ball_tf)

\* the ball is within the walls as long as no frame has begun with the ball
\* on a wall plane and heading into that wall
C37_OffThePlane ==
    [][(WithinWalls(ball_tf) /\ ~WithinWalls(ball_tf'))
         => /\ Abs(ball_tf.translation[2]) = WallPlaneY
            /\ Abs(frame.ball_tf.translation[2]) = WallPlaneY
            /\ frame.dir[2] * frame.ball_tf.translation[2] > 0]_vars

\* a wall hit has used up the budget of a frame and left the ball on the
\* plane, the curve has turned it back into the wall in the next frame and
\* the ball has gone through
C37_Escaped ==
    /\ pc = "idle"
    /\ frame.n = 2
    /\ frame.hits = <<>>
    /\ Abs(frame.ball_tf.translation[2]) = WallPlaneY
    /\ ~WithinWalls(ball_tf)

\* a wall has turned the ball back
C37_Bounced ==
    /\ pc = "idle"
    /\ frame.hits = <<"wall">>
    /\ WithinWalls(ball_tf)
    /\ Abs(ball_tf.translation[2]) < WallPlaneY

----------------------------------------------------------------------------
(* The end of a round (checked under SpecRound) *)

\* every system of the frame has run
FrameEnd == app.n > 0 /\ app.ran = Systems

\* the frame in which BallOffScreen is written ends with one more
\* PlayerScored written, no ResetBall left to read and the ball paused at
\* the centre; a frame without it writes no PlayerScored; BallOffScreen is
\* not written in two frames in a row
RoundEnds ==
    /\ app.emitted <= 1
    /\ (FrameEnd /\ app.emitted = 1) =>
          /\ Len(msgs.scored) = app.scored + 1
          /\ msgs.off_screen = <<>>
          /\ msgs.reset = 0
          /\ ball.paused
          /\ ball_tf.translation = <<0, 0>>
    /\ (FrameEnd /\ app.emitted = 0) => Len(msgs.scored) = app.scored
    /\ ~(app.emitted > 0 /\ app.last_emitted > 0)

\* handle_ball_off_screen writes one ResetBall in the frame in which
\* BallOffScreen has been written, and none in any other
OneReset ==
    RunOf("handle_ball_off_screen") => msgs'.reset = msgs.reset + app.emitted

C38_WitnessNext ==
    /\ FrameEnd
    /\ app.last_emitted = 1
    /\ app.emitted = 0
    /\ Len(msgs.scored) = 1

\* a paddle has returned the ball in the first frame and the ball has left on
\* the other side later
C38_WitnessReturned ==
    /\ FrameEnd
    /\ app.n = MaxUpdates
    /\ app.emitted = 1
    /\ ball.paused

====
